---- MODULE Spec2Model ----
(***************************************************************************)
(* A model of the SQL guardrail (checkSelectOnly), of the row-view and     *)
(* aggregate-view state handling and query synthesis (ViewDataProvider,    *)
(* AggregateDataProvider) and of the chat participant's request handler    *)
(* (AiSqlChatParticipant), of a view session and of the connect paths of   *)
(* one connection with their await points, and of                          *)
(* SchemaContextService.mapWithConcurrency.                                *)
(*                                                                         *)
(* A JavaScript string is a sequence of one-character strings, so that     *)
(* scanning, masking and quoting are computed character by character.      *)
(***************************************************************************)
EXTENDS Integers, Sequences, FiniteSets, TLC

VARIABLES
    input,           \* the argument handed to checkSelectOnly
    result,          \* the SqlGuardrailResult it returned, NoResult before the call
    viewState,       \* ViewDataProvider.state
    viewPanel,       \* ViewDataProvider.panel, with the dialect its message handler captured
    aggregateState,  \* AggregateDataProvider.state
    aggregatePanel,  \* AggregateDataProvider.panel, with the dialect its message handler captured
    posted,          \* what the open panel's webview was last given: its html, a data or an error message
    response,        \* the text the language model returned to the chat handler
    stream,          \* the markdown the chat handler wrote to the chat stream
    document,        \* the document the chat handler opened in an editor
    executed,        \* the query the chat handler had the connector execute
    classified,      \* the texts the chat handler passed to checkSelectOnly
    started,         \* how many showTable calls and webview messages the providers have begun to handle
    inflight,        \* the handlers that await connector.executeQuery, with the locals they hold
    calls,           \* the calls of connector.executeQuery, in order
    settled,         \* how each message handler's promise ended
    webview,         \* the page of the open panel: the state, query and result its script holds
    tasks,           \* the connect and disconnect operations begun for a connection, with where each stands
    connectors,      \* the connector each operation created, with its status
    registered,      \* the connector ConnectionManager.connections holds for the connection
    connectInFlight, \* CommandHandler.connectInFlight's entry for the connection
    autoConnectInFlight, \* the entry of the extension's autoConnectInFlight for the connection
    items,           \* mapWithConcurrency's argument items
    concurrency,     \* mapWithConcurrency's argument concurrency
    idx,             \* mapWithConcurrency's local idx
    results,         \* mapWithConcurrency's local results
    workers,         \* mapWithConcurrency's worker promises, with the index each awaits
    invoked,         \* the indices fn was called on, in order
    returned         \* the array mapWithConcurrency resolved with

guardVars == <<input, result>>
viewVars == <<viewState, viewPanel, aggregateState, aggregatePanel, posted>>
chatVars == <<response, stream, document, executed, classified>>
sessionVars == <<started, inflight, calls, settled, webview>>
connVars == <<tasks, connectors, registered, connectInFlight, autoConnectInFlight>>
mapVars == <<items, concurrency, idx, results, workers, invoked, returned>>

vars == <<guardVars, viewVars, chatVars, sessionVars, connVars, mapVars>>

(***************************************************************************)
(* JavaScript values                                                       *)
(***************************************************************************)
Undefined == [t |-> "undefined"]
Null == [t |-> "null"]
Str(s) == [t |-> "string", v |-> s]
Num(n) == [t |-> "number", v |-> n]
Arr(a) == [t |-> "array", v |-> a]
Obj(o) == [t |-> "object", v |-> o]
Bool(b) == [t |-> "boolean", v |-> b]

\* typeof v === 'string'
IsString(v) == v.t = "string"

(***************************************************************************)
(* Characters                                                              *)
(***************************************************************************)
UpperCase == <<"A","B","C","D","E","F","G","H","I","J","K","L","M","N","O","P","Q","R","S","T","U","V","W","X","Y","Z">>
LowerCase == <<"a","b","c","d","e","f","g","h","i","j","k","l","m","n","o","p","q","r","s","t","u","v","w","x","y","z">>
\* the grave accent U+0060 (a string literal cannot hold it: the lexer reads it as a quote)
Backtick == "U+0060"

Digits == {"0", "1", "2", "3", "4", "5", "6", "7", "8", "9"}
Letters == {UpperCase[i] : i \in 1..26} \cup {LowerCase[i] : i \in 1..26}

\* the regular expression class \s (the ASCII part of it)
Whitespace == {" ", "\t", "\n", "\r"}

\* the regular expression class \w
WordChars == Letters \cup Digits \cup {"_"}

lowerOf == [c \in {UpperCase[i] : i \in 1..26} |->
              LowerCase[CHOOSE i \in 1..26 : UpperCase[i] = c]]

upperOf == [c \in {LowerCase[i] : i \in 1..26} |->
              UpperCase[CHOOSE i \in 1..26 : LowerCase[i] = c]]

\* String.prototype.toLowerCase
toLowerCase(s) == [i \in 1..Len(s) |-> IF s[i] \in DOMAIN lowerOf THEN lowerOf[s[i]] ELSE s[i]]

\* String.prototype.toUpperCase
toUpperCase(s) == [i \in 1..Len(s) |-> IF s[i] \in DOMAIN upperOf THEN upperOf[s[i]] ELSE s[i]]

\* the least and the greatest element of a non-empty set of indices
First(indices) == CHOOSE k \in indices : \A m \in indices : k <= m
Last(indices) == CHOOSE k \in indices : \A m \in indices : k >= m

\* the index of the first character at or after i that is not white space, Len(s)+1 if none
skipWhitespace(s, i) ==
    LET hits == {k \in i..Len(s) : s[k] \notin Whitespace}
    IN  IF hits # {} THEN First(hits) ELSE IF i > Len(s) THEN i ELSE Len(s) + 1

\* the index of the last character at or before i that is not white space, 0 if none
skipWhitespaceBack(s, i) ==
    LET hits == {k \in 1..i : s[k] \notin Whitespace}
    IN  IF hits # {} THEN Last(hits) ELSE 0

\* String.prototype.trimStart
trimStart(s) == SubSeq(s, skipWhitespace(s, 1), Len(s))

\* String.prototype.trim
trim(s) == SubSeq(s, skipWhitespace(s, 1), skipWhitespaceBack(s, Len(s)))

\* String.prototype.startsWith
startsWith(s, p) == Len(s) >= Len(p) /\ SubSeq(s, 1, Len(p)) = p

\* String.prototype.indexOf(c, from) for a one-character c, 1-based; 0 stands for -1
indexOf(s, c, from) ==
    LET hits == {k \in from..Len(s) : s[k] = c}
    IN  IF hits # {} THEN First(hits) ELSE 0

\* the index of the first two-character sequence a b at or after from, 0 if none
indexOfPair(s, a, b, from) ==
    LET hits == {k \in from..(Len(s) - 1) : s[k] = a /\ s[k + 1] = b}
    IN  IF hits # {} THEN First(hits) ELSE 0

\* the strings of a list joined end to end
RECURSIVE concat(_)
concat(parts) == IF parts = <<>> THEN <<>> ELSE Head(parts) \o concat(Tail(parts))

(***************************************************************************)
(* sqlGuardrails: stripLeadingComments                                     *)
(***************************************************************************)
\* a line comment left where it is
keepLineComment(s) == s

\* s.replace(/^--[^\n]*\n?/, '')
dropLineComment(s) ==
    IF Len(s) >= 2 /\ s[1] = "-" /\ s[2] = "-"
    THEN LET nl == indexOf(s, "\n", 3)
         IN  IF nl = 0 THEN <<>> ELSE SubSeq(s, nl + 1, Len(s))
    ELSE s

\* s.replace(/^\/\*[\s\S]*?\*\//, '')
dropBlockComment(s) ==
    IF Len(s) >= 2 /\ s[1] = "/" /\ s[2] = "*"
    THEN LET close == indexOfPair(s, "*", "/", 3)
         IN  IF close = 0 THEN s ELSE SubSeq(s, close + 2, Len(s))
    ELSE s

RECURSIVE stripLeadingComments(_)
stripLeadingComments(sql) ==
    LET s == dropBlockComment(dropLineComment(trimStart(sql)))
    IN  IF s = sql THEN s ELSE stripLeadingComments(s)

(***************************************************************************)
(* sqlGuardrails: stripQuotedLiterals                                      *)
(***************************************************************************)
\* the mode a character opens in mode 'normal'
openedMode(ch) ==
    CASE ch = "'" -> "single"
      [] ch = "\"" -> "double"
      [] ch = Backtick -> "backtick"
      [] ch = "[" -> "bracket"
      [] OTHER -> "normal"

\* the character that closes a mode, and escapes itself when doubled
closerOf(mode) ==
    CASE mode = "single" -> "'"
      [] mode = "double" -> "\""
      [] mode = "backtick" -> Backtick
      [] mode = "bracket" -> "]"

\* one iteration of the loop at index i in the given mode: the text appended to out, the
\* mode after it and the index of the next iteration (two further for a doubled closer)
maskStep(sql, i, mode) ==
    LET ch == sql[i] IN
    IF mode = "normal"
    THEN IF openedMode(ch) # "normal"
         THEN [out |-> <<" ">>, mode |-> openedMode(ch), next |-> i + 1]
         ELSE [out |-> <<ch>>, mode |-> "normal", next |-> i + 1]
    ELSE IF ch = closerOf(mode)
         THEN IF i + 1 <= Len(sql) /\ sql[i + 1] = closerOf(mode)
              THEN [out |-> <<" ", " ">>, mode |-> mode, next |-> i + 2]
              ELSE [out |-> <<" ">>, mode |-> "normal", next |-> i + 1]
         ELSE [out |-> <<" ">>, mode |-> mode, next |-> i + 1]

\* the iterations of the loop that start at the indices i..j, entered in the given mode;
\* the range is run as its first half followed by its second half
RECURSIVE maskRange(_, _, _, _)
maskRange(sql, i, j, mode) ==
    IF i > j THEN [out |-> <<>>, mode |-> mode, next |-> i]
    ELSE IF i = j THEN maskStep(sql, i, mode)
    ELSE LET mid == (i + j) \div 2
             left == maskRange(sql, i, mid, mode)
             right == maskRange(sql, left.next, j, left.mode)
         IN  [out |-> left.out \o right.out, mode |-> right.mode, next |-> right.next]

\* a masker that does not know the bracket style: "[" is copied like any other character
stripQuotedLiteralsNoBracket(sql) ==
    LET m == maskRange([k \in 1..Len(sql) |-> IF sql[k] = "[" THEN "(" ELSE sql[k]],
                       1, Len(sql), "normal").out
    IN  [k \in 1..Len(sql) |-> IF m[k] = "(" /\ sql[k] = "[" THEN "[" ELSE m[k]]

stripQuotedLiterals(sql) == maskRange(sql, 1, Len(sql), "normal").out

(***************************************************************************)
(* sqlGuardrails: hasMultipleStatements                                    *)
(***************************************************************************)
\* a detector that tolerates no trailing separator
hasMultipleStatementsStrict(sqlWithoutLiterals) ==
    indexOf(sqlWithoutLiterals, ";", 1) # 0

hasMultipleStatements(sqlWithoutLiterals) ==
    LET s == sqlWithoutLiterals
        semi == indexOf(s, ";", 1)
    IN  IF semi = 0 THEN FALSE
        ELSE LET rest == SubSeq(s, semi + 1, Len(s))
             IN  IF Len(trim(rest)) = 0 THEN FALSE ELSE TRUE

(***************************************************************************)
(* sqlGuardrails: the regular expressions of checkSelectOnly               *)
(***************************************************************************)
\* a deny-list that lacks drop
forbiddenWordsNoDrop ==
    { <<"i","n","s","e","r","t">>, <<"u","p","d","a","t","e">>, <<"d","e","l","e","t","e">>, <<"m","e","r","g","e">>, <<"c","r","e","a","t","e">>, <<"a","l","t","e","r">>,
      <<"t","r","u","n","c","a","t","e">>, <<"g","r","a","n","t">>, <<"r","e","v","o","k","e">>, <<"e","x","e","c">>, <<"e","x","e","c","u","t","e">>, <<"c","a","l","l">>, <<"d","o">>,
      <<"s","e","t">>, <<"u","s","e">>, <<"b","e","g","i","n">>, <<"c","o","m","m","i","t">>, <<"r","o","l","l","b","a","c","k">>, <<"s","a","v","e","p","o","i","n","t">>, <<"v","a","c","u","u","m">>,
      <<"a","n","a","l","y","z","e">>, <<"r","e","p","l","a","c","e">> }

\* the alternatives of the regular expression forbidden
forbiddenWords ==
    { <<"i","n","s","e","r","t">>, <<"u","p","d","a","t","e">>, <<"d","e","l","e","t","e">>, <<"m","e","r","g","e">>, <<"c","r","e","a","t","e">>, <<"a","l","t","e","r">>, <<"d","r","o","p">>,
      <<"t","r","u","n","c","a","t","e">>, <<"g","r","a","n","t">>, <<"r","e","v","o","k","e">>, <<"e","x","e","c">>, <<"e","x","e","c","u","t","e">>, <<"c","a","l","l">>, <<"d","o">>,
      <<"s","e","t">>, <<"u","s","e">>, <<"b","e","g","i","n">>, <<"c","o","m","m","i","t">>, <<"r","o","l","l","b","a","c","k">>, <<"s","a","v","e","p","o","i","n","t">>, <<"v","a","c","u","u","m">>,
      <<"a","n","a","l","y","z","e">>, <<"r","e","p","l","a","c","e">> }

\* \b holds just before index i (1..Len(s)+1): exactly one side is a word character
wordBoundary(s, i) ==
    LET before == i > 1 /\ s[i - 1] \in WordChars
        after == i <= Len(s) /\ s[i] \in WordChars
    IN  before # after

\* the last index of the run of word characters that starts at i
wordEnd(s, i) == First({k \in i..Len(s) : k = Len(s) \/ s[k + 1] \notin WordChars})

\* /\bword\b/i matches at index i (word consists of word characters only)
wholeWordAt(s, word, i) ==
    /\ i + Len(word) - 1 <= Len(s)
    /\ wordBoundary(s, i)
    /\ toLowerCase(SubSeq(s, i, i + Len(word) - 1)) = word
    /\ wordBoundary(s, i + Len(word))

\* the index of the leftmost match of /\bword\b/i at or after from, 0 if none
wholeWordIndex(s, word, from) ==
    LET hits == {k \in from..Len(s) : wholeWordAt(s, word, k)}
    IN  IF hits # {} THEN First(hits) ELSE 0

\* withoutLiterals.match(forbidden): m1[1] of the leftmost match, <<>> for a
\* null match.  A match starts and ends at a \b and consists of word characters, so it is
\* a maximal run of word characters that equals an alternative, letter case ignored.
matchForbidden(s) ==
    LET starts == {k \in 1..Len(s) : s[k] \in WordChars /\ (k = 1 \/ s[k - 1] \notin WordChars)}
        hits == {k \in starts : toLowerCase(SubSeq(s, k, wordEnd(s, k))) \in forbiddenWords}
    IN  IF hits # {} THEN SubSeq(s, First(hits), wordEnd(s, First(hits))) ELSE <<>>

\* /\bselect\b[\s\S]*\binto\b/i.test(s)
testSelectInto(s) ==
    LET sel == wholeWordIndex(s, <<"s","e","l","e","c","t">>, 1)
    IN  sel # 0 /\ wholeWordIndex(s, <<"i","n","t","o">>, sel + 6) # 0

\* /\bfor\s+update\b/i.test(s)
testForUpdate(s) ==
    \E i \in 1..Len(s) :
        /\ wordBoundary(s, i)
        /\ i + 2 <= Len(s)
        /\ toLowerCase(SubSeq(s, i, i + 2)) = <<"f","o","r">>
        /\ LET j == skipWhitespace(s, i + 3)
           IN  /\ j > i + 3
               /\ j + 5 <= Len(s)
               /\ toLowerCase(SubSeq(s, j, j + 5)) = <<"u","p","d","a","t","e">>
               /\ wordBoundary(s, j + 6)

(***************************************************************************)
(* sqlGuardrails: checkSelectOnly                                          *)
(***************************************************************************)
ReasonEmpty == <<"E","m","p","t","y"," ","S","Q","L",".">>
ReasonMultiple == <<"M","u","l","t","i","p","l","e"," ","s","t","a","t","e","m","e","n","t","s"," ","d","e","t","e","c","t","e","d",".">>
ReasonNotSelect == <<"S","t","a","t","e","m","e","n","t"," ","i","s"," ","n","o","t"," ","a"," ","S","E","L","E","C","T",".">>
ReasonForbiddenPrefix == <<"F","o","r","b","i","d","d","e","n"," ","k","e","y","w","o","r","d"," ","d","e","t","e","c","t","e","d",":"," ">>
ReasonSelectInto == <<"S","E","L","E","C","T"," ","I","N","T","O"," ","d","e","t","e","c","t","e","d"," ","(","c","a","n"," ","c","r","e","a","t","e"," ","o","b","j","e","c","t","s",")",".">>
ReasonForUpdate == <<"F","O","R"," ","U","P","D","A","T","E"," ","d","e","t","e","c","t","e","d",".">>

\* the template literal "Forbidden keyword detected: ${m1[1]}."
ReasonForbidden(m) == ReasonForbiddenPrefix \o m \o <<".">>

\* String(sql ?? '') for a string, null or undefined argument
coerceToString(sql) == IF sql.t \in {"null", "undefined"} THEN <<>> ELSE sql.v

Unsafe(reason) == [isSelectOnly |-> FALSE, reason |-> reason]
Safe == [isSelectOnly |-> TRUE]

\* a classifier that scans for deny-listed keywords before it looks at the kind of statement
checkSelectOnlyScanFirst(sql) ==
    LET original == coerceToString(sql)
        withoutLeadingComments == stripLeadingComments(original)
    IN  IF Len(trim(withoutLeadingComments)) = 0 THEN Unsafe(ReasonEmpty)
        ELSE
        LET withoutLiterals == stripQuotedLiterals(withoutLeadingComments) IN
        IF hasMultipleStatements(withoutLiterals) THEN Unsafe(ReasonMultiple)
        ELSE
        LET head == toLowerCase(trimStart(withoutLiterals))
            startsOk == startsWith(head, <<"s","e","l","e","c","t">>) \/ startsWith(head, <<"w","i","t","h">>)
            m1 == matchForbidden(withoutLiterals)
        IN
        IF m1 # <<>> THEN Unsafe(ReasonForbidden(m1))
        ELSE IF ~startsOk THEN Unsafe(ReasonNotSelect)
        ELSE IF testSelectInto(withoutLiterals) THEN Unsafe(ReasonSelectInto)
        ELSE IF testForUpdate(withoutLiterals) THEN Unsafe(ReasonForUpdate)
        ELSE Safe

checkSelectOnly(sql) ==
    LET original == coerceToString(sql)
        withoutLeadingComments == stripLeadingComments(original)
    IN  IF Len(trim(withoutLeadingComments)) = 0 THEN Unsafe(ReasonEmpty)
        ELSE
        LET withoutLiterals == stripQuotedLiterals(withoutLeadingComments) IN
        IF hasMultipleStatements(withoutLiterals) THEN Unsafe(ReasonMultiple)
        ELSE
        LET head == toLowerCase(trimStart(withoutLiterals))
            startsOk == startsWith(head, <<"s","e","l","e","c","t">>) \/ startsWith(head, <<"w","i","t","h">>)
        IN
        IF ~startsOk THEN Unsafe(ReasonNotSelect)
        ELSE
        LET m1 == matchForbidden(withoutLiterals) IN
        IF m1 # <<>> THEN Unsafe(ReasonForbidden(m1))
        ELSE IF testSelectInto(withoutLiterals) THEN Unsafe(ReasonSelectInto)
        ELSE IF testForUpdate(withoutLiterals) THEN Unsafe(ReasonForUpdate)
        ELSE Safe

(***************************************************************************)
(* JavaScript conversions used by the view providers                       *)
(***************************************************************************)
DigitChars == <<"0","1","2","3","4","5","6","7","8","9">>

RECURSIVE digitsOf(_)
digitsOf(n) ==
    IF n < 10 THEN <<DigitChars[n + 1]>>
    ELSE digitsOf(n \div 10) \o <<DigitChars[(n % 10) + 1]>>

\* String(n) for an integer n
numberToString(n) == IF n < 0 THEN <<"-">> \o digitsOf(-n) ELSE digitsOf(n)

\* String(v); an array is its elements joined by commas, null and undefined elements empty
RECURSIVE toStr(_)
toStr(v) ==
    CASE v.t = "string" -> v.v
      [] v.t = "number" -> numberToString(v.v)
      [] v.t = "null" -> <<"n","u","l","l">>
      [] v.t = "undefined" -> <<"u","n","d","e","f","i","n","e","d">>
      [] v.t = "array" ->
            concat([i \in 1..Len(v.v) |->
                (IF i > 1 THEN <<",">> ELSE <<>>) \o
                (IF v.v[i].t \in {"null", "undefined"} THEN <<>> ELSE toStr(v.v[i]))])
      [] v.t = "boolean" -> IF v.v THEN <<"t","r","u","e">> ELSE <<"f","a","l","s","e">>
      [] v.t = "object" -> <<"[","o","b","j","e","c","t"," ","O","b","j","e","c","t","]">>

\* the value counts as true in a condition
truthy(v) ==
    CASE v.t = "string" -> v.v # <<>>
      [] v.t = "number" -> v.v # 0
      [] v.t = "boolean" -> v.v
      [] v.t \in {"null", "undefined"} -> FALSE
      [] OTHER -> TRUE

\* payload && typeof payload === 'object'
isObject(v) == v.t \in {"object", "array"}

\* v.key; undefined when v has no such property
get(v, key) == IF v.t = "object" /\ key \in DOMAIN v.v THEN v.v[key] ELSE Undefined

\* v?.key
getOptional(v, key) == IF v.t \in {"null", "undefined"} THEN Undefined ELSE get(v, key)

\* Array.prototype.includes
includes(list, x) == \E i \in 1..Len(list) : list[i] = x

\* the filter of mergeState that keeps the first occurrence of every element
RECURSIVE keepFirst(_, _)
keepFirst(list, seen) ==
    IF list = <<>> THEN <<>>
    ELSE IF Head(list) \in seen THEN keepFirst(Tail(list), seen)
    ELSE <<Head(list)>> \o keepFirst(Tail(list), seen \cup {Head(list)})

\* s.replace(/c/g, r) for a character c
replaceAll(s, c, r) == concat([i \in 1..Len(s) |-> IF s[i] = c THEN r ELSE <<s[i]>>])

(***************************************************************************)
(* DatabaseType                                                            *)
(***************************************************************************)
MSSQL == "mssql"
PostgreSQL == "postgresql"
MySQL == "mysql"
DatabaseType == {MSSQL, PostgreSQL, MySQL}

(***************************************************************************)
(* ViewDataProvider and AggregateDataProvider: quoting                     *)
(***************************************************************************)
\* an identifier wrapped without doubling its closing delimiter
quoteIdentifierUnescaped(dbType, identifier) ==
    IF dbType = MSSQL THEN <<"[">> \o identifier \o <<"]">>
    ELSE IF dbType = MySQL THEN <<Backtick>> \o identifier \o <<Backtick>>
    ELSE <<"\"">> \o identifier \o <<"\"">>

quoteIdentifier(dbType, identifier) ==
    IF dbType = MSSQL THEN <<"[">> \o replaceAll(identifier, "]", <<"]", "]">>) \o <<"]">>
    ELSE IF dbType = MySQL
         THEN <<Backtick>> \o replaceAll(identifier, Backtick, <<Backtick, Backtick>>) \o <<Backtick>>
    ELSE <<"\"">> \o replaceAll(identifier, "\"", <<"\"", "\"">>) \o <<"\"">>

sqlStringLiteral(value) == <<"'">> \o replaceAll(value, "'", <<"'", "'">>) \o <<"'">>

\* /^-?\d+(\.\d+)?$/.test(v)
isNumericLiteral(v) ==
    LET body == IF v # <<>> /\ v[1] = "-" THEN Tail(v) ELSE v
        dot == indexOf(body, ".", 1)
        whole == IF dot = 0 THEN body ELSE SubSeq(body, 1, dot - 1)
        frac == IF dot = 0 THEN <<>> ELSE SubSeq(body, dot + 1, Len(body))
    IN  /\ whole # <<>>
        /\ \A i \in 1..Len(whole) : whole[i] \in Digits
        /\ dot # 0 => (frac # <<>> /\ \A i \in 1..Len(frac) : frac[i] \in Digits)

\* a literal that is quoted whatever the value is
coerceLiteralQuoted(value) == sqlStringLiteral(trim(value))

coerceLiteral(value) ==
    LET v == trim(value)
    IN  IF v = <<>> THEN sqlStringLiteral(<<>>)
        ELSE IF isNumericLiteral(v) THEN v
        ELSE sqlStringLiteral(v)

\* the elements joined by the separator
RECURSIVE join(_, _)
join(parts, sep) ==
    IF parts = <<>> THEN <<>>
    ELSE IF Len(parts) = 1 THEN parts[1]
    ELSE parts[1] \o sep \o join(Tail(parts), sep)

\* state.schema ? quoted schema . quoted table : quoted table
fromTargetOf(dbType, state) ==
    IF truthy(state.schema)
    THEN quoteIdentifier(dbType, state.schema.v) \o <<".">> \o quoteIdentifier(dbType, state.tableName)
    ELSE quoteIdentifier(dbType, state.tableName)

\* a WHERE clause built from the filter field without looking it up in availableColumns
whereClauseOfUnchecked(dbType, state) ==
    LET filterField == state.filterField
        op == state.filterOperator
        filterValue == trim(IF state.filterValue.t = "undefined" THEN <<>> ELSE state.filterValue.v)
    IN  IF truthy(filterField) /\ truthy(op) /\ Len(filterValue) # 0
        THEN LET qField == quoteIdentifier(dbType, filterField.v)
             IN  IF op.v = <<"l","i","k","e">>
                 THEN <<" ","W","H","E","R","E"," ">> \o qField \o <<" ","L","I","K","E"," ">> \o sqlStringLiteral(filterValue)
                 ELSE <<" ","W","H","E","R","E"," ">> \o qField \o <<" ">> \o op.v \o <<" ">> \o coerceLiteral(filterValue)
        ELSE <<>>

\* the WHERE clause both providers build
whereClauseOf(dbType, state) ==
    LET filterField == IF truthy(state.filterField) /\ includes(state.availableColumns, state.filterField.v)
                       THEN state.filterField ELSE Undefined
        op == state.filterOperator
        filterValue == trim(IF state.filterValue.t = "undefined" THEN <<>> ELSE state.filterValue.v)
    IN  IF truthy(filterField) /\ truthy(op) /\ Len(filterValue) # 0
        THEN LET qField == quoteIdentifier(dbType, filterField.v)
             IN  IF op.v = <<"l","i","k","e">>
                 THEN <<" ","W","H","E","R","E"," ">> \o qField \o <<" ","L","I","K","E"," ">> \o sqlStringLiteral(filterValue)
                 ELSE <<" ","W","H","E","R","E"," ">> \o qField \o <<" ">> \o op.v \o <<" ">> \o coerceLiteral(filterValue)
        ELSE <<>>

\* a cap that is always the default of 100 rows
safeLimitOfDefault(state) == 100

\* Number.isFinite(state.limit) ? Math.max(1, Math.floor(state.limit)) : 100, for an integer limit
safeLimitOf(state) == IF state.limit > 1 THEN state.limit ELSE 1

(***************************************************************************)
(* ViewDataProvider                                                        *)
(***************************************************************************)
RowLimits == {20, 100, 250, 1000}
SortDirections == { <<"a","s","c">>, <<"d","e","s","c">>, <<"n","o","n","e">> }
FilterOperators == { <<"=">>, <<"<">>, <<">">>, <<"l","i","k","e">> }

\* the state showTable creates; viewColumns are the columns whose metadata says viewInList
rowShowTable(connectionId, database, schema, tableName, columns, viewInList) ==
    LET availableColumns == columns
        viewColumns == SelectSeq(columns, LAMBDA c : c \in viewInList)
        selectedColumns == IF Len(viewColumns) # 0 THEN viewColumns ELSE availableColumns
    IN  [ connectionId |-> connectionId,
          database |-> database,
          schema |-> schema,
          tableName |-> tableName,
          availableColumns |-> availableColumns,
          selectedColumns |-> selectedColumns,
          limit |-> 100,
          sortColumn |-> Undefined,
          sortDirection |-> <<"n","o","n","e">>,
          filterField |-> Undefined,
          filterOperator |-> Undefined,
          filterValue |-> Undefined ]

\* a merge that stores the filtered selection also when it is empty
rowNextSelectedColumnsAsSent(current, payload) ==
    LET p == get(payload, "selectedColumns")
    IN  IF p.t = "array"
        THEN LET mapped == [i \in 1..Len(p.v) |-> toStr(p.v[i])]
                 known == SelectSeq(mapped, LAMBDA c : includes(current.availableColumns, c))
             IN  keepFirst(known, {})
        ELSE current.selectedColumns

rowNextSelectedColumns(current, payload) ==
    LET p == get(payload, "selectedColumns")
    IN  IF p.t = "array"
        THEN LET mapped == [i \in 1..Len(p.v) |-> toStr(p.v[i])]
                 known == SelectSeq(mapped, LAMBDA c : includes(current.availableColumns, c))
                 filtered == keepFirst(known, {})
             IN  IF Len(filtered) # 0 THEN filtered ELSE current.availableColumns
        ELSE current.selectedColumns

\* a merge that takes any number as the limit
rowNextLimitAny(current, payload) ==
    LET p == get(payload, "limit")
    IN  IF p.t = "number" THEN p.v ELSE current.limit

rowNextLimit(current, payload) ==
    LET p == get(payload, "limit")
    IN  IF p.t = "number" /\ p.v \in RowLimits THEN p.v ELSE current.limit

\* the column-valued fields sortColumn and filterField of the row view
rowNextColumn(current, payload, key) ==
    LET p == get(payload, key)
    IN  IF p.t = "string" \/ p.t = "null"
        THEN LET col == IF truthy(p) THEN Str(toStr(p)) ELSE Undefined
             IN  IF truthy(col) /\ includes(current.availableColumns, col.v) THEN col ELSE Undefined
        ELSE current[key]

nextSortDirection(current, payload) ==
    LET p == get(payload, "sortDirection")
    IN  IF p = Str(<<"a","s","c">>) \/ p = Str(<<"d","e","s","c">>) \/ p = Str(<<"n","o","n","e">>) THEN p.v
        ELSE current.sortDirection

nextFilterOperator(current, payload) ==
    LET p == get(payload, "filterOperator")
    IN  IF p = Str(<<"=">>) \/ p = Str(<<"<">>) \/ p = Str(<<">">>) \/ p = Str(<<"l","i","k","e">>) THEN p
        ELSE current.filterOperator

\* a merge that treats a payload without filterValue as one that clears it
nextFilterValueClearing(current, payload) ==
    LET p == get(payload, "filterValue")
    IN  IF p.t \in {"string", "null", "undefined"}
        THEN IF truthy(p) THEN Str(toStr(p)) ELSE Undefined
        ELSE current.filterValue

nextFilterValue(current, payload) ==
    LET p == get(payload, "filterValue")
    IN  IF p.t = "string" \/ p.t = "null"
        THEN IF truthy(p) THEN Str(toStr(p)) ELSE Undefined
        ELSE current.filterValue

rowMergeState(current, payload) ==
    IF truthy(payload) /\ isObject(payload)
    THEN [current EXCEPT
            !.selectedColumns = rowNextSelectedColumns(current, payload),
            !.limit = rowNextLimit(current, payload),
            !.sortColumn = rowNextColumn(current, payload, "sortColumn"),
            !.sortDirection = nextSortDirection(current, payload),
            !.filterField = rowNextColumn(current, payload, "filterField"),
            !.filterOperator = nextFilterOperator(current, payload),
            !.filterValue = nextFilterValue(current, payload)]
    ELSE current

rowBuildQuery(dbType, state) ==
    LET cols == SelectSeq(IF Len(state.selectedColumns) # 0 THEN state.selectedColumns
                          ELSE state.availableColumns,
                          LAMBDA c : includes(state.availableColumns, c))
        selectList == IF Len(cols) # 0
                      THEN join([i \in 1..Len(cols) |-> quoteIdentifier(dbType, cols[i])], <<","," ">>)
                      ELSE <<"*">>
        fromTarget == fromTargetOf(dbType, state)
        whereClause == whereClauseOf(dbType, state)
        sortCol == IF truthy(state.sortColumn) /\ includes(state.availableColumns, state.sortColumn.v)
                   THEN state.sortColumn ELSE Undefined
        sortDir == state.sortDirection
        orderClause == IF truthy(sortCol) /\ sortDir # <<"n","o","n","e">>
                       THEN <<" ","O","R","D","E","R"," ","B","Y"," ">> \o quoteIdentifier(dbType, sortCol.v) \o <<" ">> \o toUpperCase(sortDir)
                       ELSE <<>>
        safeLimit == numberToString(safeLimitOf(state))
    IN  IF dbType = MSSQL
        THEN <<"S","E","L","E","C","T"," ","T","O","P"," ","(">> \o safeLimit \o <<")"," ">> \o selectList \o <<" ","F","R","O","M"," ">> \o fromTarget
                \o whereClause \o orderClause
        ELSE <<"S","E","L","E","C","T"," ">> \o selectList \o <<" ","F","R","O","M"," ">> \o fromTarget
                \o whereClause \o orderClause \o <<" ","L","I","M","I","T"," ">> \o safeLimit

(***************************************************************************)
(* AggregateDataProvider                                                   *)
(***************************************************************************)
AggregateLimits == {20, 50, 100, 500, 1000}
AggregateFunctions == { <<"c","o","u","n","t">>, <<"s","u","m">>, <<"a","v","g">>, <<"m","i","n">>, <<"m","a","x">> }

\* the state showTable creates from the options of the command
aggShowTable(connectionId, database, schema, tableName, columns, options) ==
    [ connectionId |-> connectionId,
      database |-> database,
      schema |-> schema,
      tableName |-> tableName,
      availableColumns |-> columns,
      aggregations |-> IF getOptional(options, "initialAggregations").t = "array"
                       THEN getOptional(options, "initialAggregations").v ELSE <<>>,
      includeCountAll |-> IF getOptional(options, "includeCountAll").t \in {"null", "undefined"}
                          THEN FALSE ELSE getOptional(options, "includeCountAll").v,
      limit |-> 100,
      sortColumn |-> Undefined,
      sortDirection |-> <<"n","o","n","e">>,
      filterField |-> Undefined,
      filterOperator |-> Undefined,
      filterValue |-> Undefined ]

\* a merge that takes any number as the limit
aggNextLimitAny(current, payload) ==
    LET p == get(payload, "limit")
    IN  IF p.t = "number" THEN p.v ELSE current.limit

aggNextLimit(current, payload) ==
    LET p == get(payload, "limit")
    IN  IF p.t = "number" /\ p.v \in AggregateLimits THEN p.v ELSE current.limit

\* a merge that stores any filter field it is sent
aggNextFilterFieldAny(current, payload) ==
    LET p == get(payload, "filterField")
    IN  IF p.t = "string" \/ p.t = "null"
        THEN IF truthy(p) THEN Str(toStr(p)) ELSE Undefined
        ELSE current.filterField

aggNextFilterField(current, payload) ==
    LET p == get(payload, "filterField")
    IN  IF p.t = "string" \/ p.t = "null"
        THEN LET field == IF truthy(p) THEN Str(toStr(p)) ELSE Undefined
             IN  IF truthy(field) /\ includes(current.availableColumns, field.v) THEN field ELSE Undefined
        ELSE current.filterField

aggNextSortColumn(current, payload) ==
    LET p == get(payload, "sortColumn")
    IN  IF p.t = "string" \/ p.t = "null"
        THEN IF truthy(p) THEN Str(toStr(p)) ELSE Undefined
        ELSE current.sortColumn

aggMergeState(current, payload) ==
    IF truthy(payload) /\ isObject(payload)
    THEN [current EXCEPT
            !.limit = aggNextLimit(current, payload),
            !.filterField = aggNextFilterField(current, payload),
            !.sortColumn = aggNextSortColumn(current, payload),
            !.sortDirection = nextSortDirection(current, payload),
            !.filterOperator = nextFilterOperator(current, payload),
            !.filterValue = nextFilterValue(current, payload)]
    ELSE current

normalizeFunc(value) ==
    IF toStr(value) \in AggregateFunctions THEN value ELSE Str(<<"n","o","n","e">>)

\* a === b for two values that arrive in different messages: arrays and objects
\* are equal only to themselves
strictEquals(a, b) == a.t \notin {"array", "object"} /\ a = b

addAggregate(current, payload) ==
    LET p == getOptional(payload, "field")
        field == IF p.t = "string" THEN trim(p.v) ELSE <<>>
        func == normalizeFunc(getOptional(payload, "func"))
        exists == \E i \in 1..Len(current.aggregations) :
                      /\ current.aggregations[i].field = field
                      /\ strictEquals(current.aggregations[i].func, func)
    IN  IF field = <<>> \/ ~includes(current.availableColumns, field) THEN current
        ELSE IF exists THEN current
        ELSE [current EXCEPT !.aggregations = Append(@, [field |-> field, func |-> func])]

\* addAggregate with its arrays as objects of a heap: current.aggregations is the address of
\* a list, [...current.aggregations] allocates a copy, and push writes to the copy
addAggregateInPlace(heap, current, payload) ==
    LET copy == Len(heap) + 1
        copied == Append(heap, heap[current.aggregations])
        next == [current EXCEPT !.aggregations = copy]
        p == getOptional(payload, "field")
        field == IF p.t = "string" THEN trim(p.v) ELSE <<>>
        func == normalizeFunc(getOptional(payload, "func"))
        exists == \E i \in 1..Len(copied[next.aggregations]) :
                      /\ copied[next.aggregations][i].field = field
                      /\ strictEquals(copied[next.aggregations][i].func, func)
    IN  IF field = <<>> \/ ~includes(current.availableColumns, field) THEN [heap |-> copied, next |-> next]
        ELSE IF exists THEN [heap |-> copied, next |-> next]
        ELSE [heap |-> [copied EXCEPT ![next.aggregations] = Append(@, [field |-> field, func |-> func])],
              next |-> next]

\* a removal that drops the entry at the index and every entry after it
removeAggregateFrom(current, payload) ==
    LET p == getOptional(payload, "index")
        index == IF p.t = "number" THEN p.v ELSE -1
    IN  IF index < 0 \/ index >= Len(current.aggregations) THEN current
        ELSE [current EXCEPT !.aggregations = SubSeq(@, 1, index)]

removeAggregate(current, payload) ==
    LET p == getOptional(payload, "index")
        index == IF p.t = "number" THEN p.v ELSE -1
    IN  IF index < 0 \/ index >= Len(current.aggregations) THEN current
        ELSE [current EXCEPT !.aggregations =
                [i \in 1..(Len(@) - 1) |-> IF i <= index THEN @[i] ELSE @[i + 1]]]

\* s.replace(/[^\w]+/g, '_')
RECURSIVE replaceNonWord(_)
replaceNonWord(s) ==
    IF s = <<>> THEN <<>>
    ELSE IF s[1] \in WordChars THEN <<s[1]>> \o replaceNonWord(Tail(s))
    ELSE LET rest == replaceNonWord(Tail(s))
         IN  IF Len(s) > 1 /\ s[2] \notin WordChars THEN rest ELSE <<"_">> \o rest

\* an alias that keeps the characters of the column name as they are
aliasBaseOfRaw(agg) == toStr(agg.func) \o <<"_">> \o agg.field

\* the alias of an aggregate with a function
aliasBaseOf(agg) == replaceNonWord(toStr(agg.func) \o <<"_">> \o agg.field)

outputColumnOf(agg) ==
    IF agg.func = Str(<<"n","o","n","e">>) THEN agg.field
    ELSE IF aliasBaseOf(agg) # <<>> THEN aliasBaseOf(agg) ELSE toStr(agg.func)

selectPartOf(dbType, agg) ==
    IF agg.func = Str(<<"n","o","n","e">>) THEN quoteIdentifier(dbType, agg.field)
    ELSE toUpperCase(agg.func.v) \o <<"(">> \o quoteIdentifier(dbType, agg.field) \o <<")"," ","A","S"," ">>
            \o quoteIdentifier(dbType, outputColumnOf(agg))

\* the query text, or the TypeError of calling toUpperCase on a function that is not a string
aggBuildQuery(dbType, state) ==
    LET validAggs == SelectSeq(state.aggregations, LAMBDA a : includes(state.availableColumns, a.field))
        throws == \E i \in 1..Len(validAggs) :
                      validAggs[i].func # Str(<<"n","o","n","e">>) /\ validAggs[i].func.t # "string"
        aggParts == [i \in 1..Len(validAggs) |-> selectPartOf(dbType, validAggs[i])]
        groupAggs == SelectSeq(validAggs, LAMBDA a : a.func = Str(<<"n","o","n","e">>))
        groupParts == [i \in 1..Len(groupAggs) |-> quoteIdentifier(dbType, groupAggs[i].field)]
        aggColumns == [i \in 1..Len(validAggs) |-> outputColumnOf(validAggs[i])]
        countAll == <<"C","O","U","N","T","(","*",")"," ","A","S"," ">> \o quoteIdentifier(dbType, <<"c","o","u","n","t","_","a","l","l">>)
        parts1 == IF Len(aggParts) = 0 THEN <<countAll>> ELSE aggParts
        columns1 == IF Len(aggParts) = 0 THEN << <<"c","o","u","n","t","_","a","l","l">> >> ELSE aggColumns
        addCount == state.includeCountAll /\ ~includes(columns1, <<"c","o","u","n","t","_","a","l","l">>)
        selectParts == IF addCount THEN Append(parts1, countAll) ELSE parts1
        outputColumns == IF addCount THEN Append(columns1, <<"c","o","u","n","t","_","a","l","l">>) ELSE columns1
        fromTarget == fromTargetOf(dbType, state)
        whereClause == whereClauseOf(dbType, state)
        groupClause == IF Len(groupParts) # 0 THEN <<" ","G","R","O","U","P"," ","B","Y"," ">> \o join(groupParts, <<","," ">>) ELSE <<>>
        safeLimit == numberToString(safeLimitOf(state))
        sortCol == IF truthy(state.sortColumn) /\ includes(outputColumns, state.sortColumn.v)
                   THEN state.sortColumn ELSE Undefined
        sortDir == state.sortDirection
        orderClause == IF truthy(sortCol) /\ sortDir # <<"n","o","n","e">>
                       THEN <<" ","O","R","D","E","R"," ","B","Y"," ">> \o quoteIdentifier(dbType, sortCol.v) \o <<" ">> \o toUpperCase(sortDir)
                       ELSE <<>>
    IN  IF throws THEN [ok |-> FALSE, error |-> "TypeError"]
        ELSE IF dbType = MSSQL
        THEN [ok |-> TRUE, text |->
                <<"S","E","L","E","C","T"," ","T","O","P"," ","(">> \o safeLimit \o <<")"," ">> \o join(selectParts, <<","," ">>) \o <<" ","F","R","O","M"," ">>
                    \o fromTarget \o whereClause \o groupClause \o orderClause]
        ELSE [ok |-> TRUE, text |->
                <<"S","E","L","E","C","T"," ">> \o join(selectParts, <<","," ">>) \o <<" ","F","R","O","M"," ">> \o fromTarget
                    \o whereClause \o groupClause \o orderClause \o <<" ","L","I","M","I","T"," ">> \o safeLimit]

(***************************************************************************)
(* AiSqlChatParticipant                                                    *)
(***************************************************************************)
Fence == <<Backtick, Backtick, Backtick>>

\* the index of the first fence at or after from, 0 if none
indexOfFence(s, from) ==
    LET hits == {k \in from..(Len(s) - 2) : SubSeq(s, k, k + 2) = Fence}
    IN  IF hits # {} THEN First(hits) ELSE 0

\* trimmed.match(/(fence)(?:sql)?\s*([\s\S]*?)\s*(fence)/i)?.[1], <<>> for no match: the
\* leftmost fence opens, the optional word sql and the white space after it are skipped,
\* and the lazy group ends before the white space that precedes the next fence
fencedGroup(trimmed) ==
    LET open == indexOfFence(trimmed, 1)
        afterOpen == open + 3
        afterSql == IF afterOpen + 2 <= Len(trimmed)
                       /\ toLowerCase(SubSeq(trimmed, afterOpen, afterOpen + 2)) = <<"s","q","l">>
                    THEN afterOpen + 3 ELSE afterOpen
        start == skipWhitespace(trimmed, afterSql)
        close == indexOfFence(trimmed, start)
    IN  IF open = 0 \/ close = 0 THEN <<>>
        ELSE SubSeq(trimmed, start, skipWhitespaceBack(trimmed, close - 1))

extractSql(text) ==
    LET trimmed == trim(text)
        fenced == fencedGroup(trimmed)
    IN  IF fenced # <<>> THEN trim(fenced) ELSE trimmed

\* the messages the handler writes with stream.markdown
MsgNoActiveConnection == "No active connection selected."
MsgNoDatabase == "No database selected."
MsgConnectionGone == "Active connection no longer exists."
MsgFailedToConnect == "Failed to connect"
MsgNotConnected == "Not connected."
MsgUsingDatabase == "Using database ... Fetching schema..."
MsgFailedToLoadSchema == "Failed to load schema"
MsgNoModel == "No Copilot chat model available."
MsgNoResponse == "(No response)"
MsgEmptySql == "Copilot returned an empty SQL response."
MsgDone == "Done. Opened the query in the editor and executed it."
MsgFailedToGenerate == "Failed to generate SQL via Copilot model API"

\* one stream.markdown call: a fixed message, or the text of the model
Markdown(m) == [markdown |-> m]

\* what a request leaves behind: the stream, the document opened in the editor, the query
\* the command sql-client.executeQuery handed to the connector, and the texts the handler
\* passed to checkSelectOnly
chatOutcome(streamed, doc, query, checked) ==
    [stream |-> streamed, document |-> doc, executed |-> query, classified |-> checked]

\* the command sql-client.executeQuery on the editor the handler has just shown: the
\* selection is empty, so the query is the whole text of the document
executeQueryCommand(doc) == IF Len(trim(doc.v)) = 0 THEN Undefined ELSE doc

\* the request handler, for an environment env that says how each awaited call ends
handler(env) ==
    IF env.active = "none" THEN chatOutcome(<<Markdown(MsgNoActiveConnection)>>, Undefined, Undefined, {})
    ELSE IF env.active = "noDatabase" THEN chatOutcome(<<Markdown(MsgNoDatabase)>>, Undefined, Undefined, {})
    ELSE IF ~env.stored THEN chatOutcome(<<Markdown(MsgConnectionGone)>>, Undefined, Undefined, {})
    ELSE IF env.connector = "connectFails"
         THEN chatOutcome(<<Markdown(MsgFailedToConnect)>>, Undefined, Undefined, {})
    ELSE IF env.connector = "missing"
         THEN chatOutcome(<<Markdown(MsgNotConnected)>>, Undefined, Undefined, {})
    ELSE IF ~env.schema
         THEN chatOutcome(<<Markdown(MsgUsingDatabase), Markdown(MsgFailedToLoadSchema)>>,
                          Undefined, Undefined, {})
    ELSE IF ~env.model
         THEN chatOutcome(<<Markdown(MsgUsingDatabase), Markdown(MsgNoModel)>>, Undefined, Undefined, {})
    ELSE IF env.response = "throws"
         THEN chatOutcome(<<Markdown(MsgUsingDatabase), Markdown(MsgFailedToGenerate)>>,
                          Undefined, Undefined, {})
    ELSE IF env.mode = "chat"
         THEN chatOutcome(<<Markdown(MsgUsingDatabase),
                            Markdown(IF env.text # <<>> THEN env.text ELSE MsgNoResponse)>>,
                          Undefined, Undefined, {})
    ELSE LET sql == extractSql(env.text)
         IN  IF Len(trim(sql)) = 0
             THEN chatOutcome(<<Markdown(MsgUsingDatabase), Markdown(MsgEmptySql)>>,
                              Undefined, Undefined, {})
             ELSE LET doc == Str(trim(sql) \o <<"\n">>)
                  IN  chatOutcome(<<Markdown(MsgUsingDatabase), Markdown(MsgDone)>>,
                                  doc, executeQueryCommand(doc), {})

(***************************************************************************)
(* The state before anything has happened                                  *)
(***************************************************************************)
NoResult == [called |-> FALSE]
NoMessage == [type |-> "none"]

GuardIdle == input = Undefined /\ result = NoResult

ViewIdle ==
    /\ viewState = Undefined
    /\ viewPanel = Undefined
    /\ aggregateState = Undefined
    /\ aggregatePanel = Undefined
    /\ posted = NoMessage

ChatIdle ==
    /\ response = Undefined
    /\ stream = <<>>
    /\ document = Undefined
    /\ executed = Undefined
    /\ classified = {}


NoPage == [loaded |-> FALSE]

SessionIdle ==
    /\ started = 0
    /\ inflight = {}
    /\ calls = <<>>
    /\ settled = {}
    /\ webview = NoPage

\* no connector, no entry in either map
NoConnector == 0

ConnIdle ==
    /\ tasks = <<>>
    /\ connectors = <<>>
    /\ registered = NoConnector
    /\ connectInFlight = NoConnector
    /\ autoConnectInFlight = NoConnector

MapIdle ==
    /\ items = <<>>
    /\ concurrency = 0
    /\ idx = 0
    /\ results = <<>>
    /\ workers = <<>>
    /\ invoked = <<>>
    /\ returned = Undefined
(***************************************************************************)
(* The classifier applied to one argument                                  *)
(***************************************************************************)
\* the number of tokens appended to a statement
MaxSuffixTokens == 2

LeadingTexts == { <<>>, <<" "," ">>, <<"/","*"," ","c"," ","*","/"," ","-","-"," ","d","\n">>, <<"-","-"," ","c","\n","/","*"," ","d"," ","*","/"," ">> }

Statements ==
    { <<>>,
      <<"S","E","L","E","C","T"," ","1">>,
      <<"S","E","L","E","C","T"," ","*"," ","F","R","O","M"," ","t"," ","W","H","E","R","E"," ","n","a","m","e"," ","="," ","'","a",";","D","R","O","P"," ","T","A","B","L","E"," ","x","'">>,
      <<"W","I","T","H"," ","c"," ","A","S"," ","(","S","E","L","E","C","T"," ","1",")"," ","S","E","L","E","C","T"," ","*"," ","F","R","O","M"," ","c">>,
      <<"U","P","D","A","T","E"," ","t"," ","S","E","T"," ","x","=","1">>,
      <<"S","E","L","E","C","T"," ","1"," ","/","*"," ","'"," ","*","/"," ",";"," ","D","R","O","P"," ","T","A","B","L","E"," ","x"," ","/","*"," ","'"," ","*","/">>,
      <<"S","E","L","E","C","T"," ","'","a","b","c",";"," ","D","R","O","P"," ","T","A","B","L","E"," ","x">>,
      <<"S","E","L","E","C","T"," ","u","p","d","a","t","e","d","_","a","t",","," ","s","e","t","_","i","d"," ","F","R","O","M"," ","d","r","o","p","p","e","d">>,
      <<"S","E","L","E","C","T"," ","*"," ","F","R","O","M"," ","t"," ","F","O","R"," ","U","P","D","A","T","E">>,
      <<"S","E","L","E","C","T"," ","a"," ","I","N","T","O"," ","b"," ","F","R","O","M"," ","t">>,
      <<"s","e","l","e","c","t"," ","\"","a",";","b","\"",","," ",Backtick,"d","o",Backtick,","," ","[","x","]","]","y","]"," ","f","r","o","m"," ","t">>,
      <<"S","E","L","E","C","T"," ","1",";"," ","S","E","L","E","C","T"," ","2">>,
      <<"/","*"," ","o","p","e","n">>,
      <<"w","i","t","h"," ","x"," ","a","s"," ","(","d","e","l","e","t","e"," ","f","r","o","m"," ","t",")"," ","s","e","l","e","c","t"," ","*"," ","f","r","o","m"," ","x">> }

Tokens == { <<";">>, <<" ">>, <<"'">>, <<"\"">>, <<Backtick>>, <<"[">>, <<"]">>, <<"D","r","o","p">>, <<"_","x">> }

Suffixes == UNION { [1..n -> Tokens] : n \in 0..MaxSuffixTokens }

GuardInputs ==
    { Null, Undefined } \cup
    { Str(l \o s \o concat(x)) : l \in LeadingTexts, s \in Statements, x \in Suffixes }

GuardInit ==
    /\ input \in GuardInputs
    /\ result = NoResult
    /\ ViewIdle
    /\ ChatIdle /\ SessionIdle /\ ConnIdle /\ MapIdle

\* one call of checkSelectOnly
Classify ==
    /\ result = NoResult
    /\ result' = checkSelectOnly(input)
    /\ UNCHANGED <<input, viewVars, chatVars, sessionVars, connVars, mapVars>>

GuardNext == Classify

GuardSpec == GuardInit /\ [][GuardNext]_vars

(***************************************************************************)
(* The row view and the aggregate view                                     *)
(***************************************************************************)
\* the most aggregates a view holds
MaxAggregations == 2

\* the stored connections that are connected, with their DatabaseType
StoredConnections == [c1 |-> MSSQL, c2 |-> PostgreSQL]

\* the connection ids a tree node can carry; c0 is not stored
ConnectionIds == {"c0", "c1", "c2"}

\* the tables of the explorer tree: their columns, and the columns whose metadata says viewInList
Tables ==
    { [ database |-> Undefined, schema |-> Undefined, tableName |-> <<"t">>,
        columns |-> << <<"i","d">>, <<"n","a","m","e">> >>, viewInList |-> {} ],
      [ database |-> Str(<<"d","b">>), schema |-> Str(<<"a","\"","b">>), tableName |-> <<"x","]",";","y">>,
        columns |-> << <<"u","p","d","a","t","e">>, <<"a",";",Backtick,"'","b">> >>, viewInList |-> { <<"u","p","d","a","t","e">> } ] }

UnknownColumn == <<"z","z">>
HostileValue == <<"x","'",";"," ","D","R","O","P"," ","T","A","B","L","E"," ","t"," ","-","-">>

\* an object with one property
Single(key, value) == Obj([k \in {key} |-> value])

\* payloads of a refresh message of the row view
ViewPayloads(state) ==
    LET c1 == state.availableColumns[1]
        c2 == state.availableColumns[2]
    IN  { Null, Num(1), Arr(<<>>) }
        \cup { Single("selectedColumns", v) :
                 v \in { Arr(<<>>), Arr(<<Str(c2), Str(c1), Str(c2), Str(UnknownColumn)>>),
                         Arr(<<Num(1)>>), Str(c1) } }
        \cup { Single("limit", v) : v \in { Num(250), Num(7), Str(<<"2","0">>) } }
        \cup { Single("sortColumn", v) : v \in { Str(c1), Str(UnknownColumn), Null } }
        \cup { Single("sortDirection", v) : v \in { Str(<<"d","e","s","c">>), Str(<<"u","p">>) } }
        \cup { Single("filterField", v) : v \in { Str(c2), Str(UnknownColumn), Num(1) } }
        \cup { Single("filterOperator", v) : v \in { Str(<<"=">>), Str(<<"l","i","k","e">>), Str(<<"<",">">>) } }
        \cup { Single("filterValue", v) : v \in { Str(<<"5">>), Str(HostileValue), Null } }

\* payloads of a refresh message of the aggregate view
AggregatePayloads(state) ==
    LET c1 == state.availableColumns[1]
        c2 == state.availableColumns[2]
    IN  { Null,
          Single("limit", Num(50)), Single("limit", Num(250)),
          Obj([filterField |-> Str(c2), filterOperator |-> Str(<<"=">>), filterValue |-> Str(HostileValue)]),
          Single("filterField", Str(UnknownColumn)),
          Obj([sortColumn |-> Str(<<"c","o","u","n","t","_","a","l","l">>), sortDirection |-> Str(<<"d","e","s","c">>)]),
          Obj([sortColumn |-> Str(c1), sortDirection |-> Str(<<"a","s","c">>)]) }

\* payloads of an addAggregate message
AddPayloads(state) ==
    LET c1 == state.availableColumns[1]
        c2 == state.availableColumns[2]
    IN  { Null,
          Obj([field |-> Str(c1), func |-> Str(<<"s","u","m">>)]),
          Obj([field |-> Str(c1), func |-> Str(<<"m","e","d","i","a","n">>)]),
          Obj([field |-> Str(c1), func |-> Arr(<<Str(<<"c","o","u","n","t">>)>>)]),
          Single("field", Str(<<" ">> \o c2 \o <<" ">>)),
          Obj([field |-> Str(UnknownColumn), func |-> Str(<<"c","o","u","n","t">>)]) }

\* payloads of a removeAggregate message
RemovePayloads == { Null, Single("index", Num(0)), Single("index", Num(1)),
                    Single("index", Num(5)), Single("index", Num(-1)), Single("index", Str(<<"0">>)) }

\* the options of the commands aggregateTableData (none) and aggregateFieldData
AggregateOptions(table) ==
    { Undefined } \cup
    { Obj([ initialAggregations |-> Arr(<<[field |-> table.columns[i], func |-> Str(<<"n","o","n","e">>)]>>),
            includeCountAll |-> Bool(TRUE) ]) : i \in 1..Len(table.columns) }

\* the panel a provider keeps: its message handler holds the dialect of the connection
\* the panel was created for
Panel(dbType) == [dbType |-> dbType]

\* ViewDataProvider.showTable; the initial load succeeds or the connector throws
ViewShowTable ==
    \E connectionId \in ConnectionIds, table \in Tables, loads \in BOOLEAN :
        /\ aggregatePanel = Undefined
        /\ IF connectionId \notin DOMAIN StoredConnections
           THEN UNCHANGED viewVars
           ELSE LET dbType == StoredConnections[connectionId]
                    state == rowShowTable(connectionId, table.database, table.schema,
                                          table.tableName, table.columns, table.viewInList)
                IN  /\ viewState' = state
                    /\ viewPanel' = IF viewPanel # Undefined THEN viewPanel ELSE Panel(dbType)
                    /\ posted' = IF loads THEN [type |-> "html", query |-> rowBuildQuery(dbType, state)]
                                 ELSE posted
                    /\ UNCHANGED <<aggregateState, aggregatePanel>>
        /\ UNCHANGED <<guardVars, chatVars, sessionVars, connVars, mapVars>>

\* the panel's onDidDispose callback
ViewDispose ==
    /\ viewPanel # Undefined
    /\ viewPanel' = Undefined
    /\ viewState' = Undefined
    /\ posted' = NoMessage
    /\ UNCHANGED <<aggregateState, aggregatePanel, guardVars, chatVars, sessionVars, connVars, mapVars>>

\* ViewDataProvider.handleRefreshMessage; the query succeeds or the connector throws
ViewRefresh ==
    /\ viewPanel # Undefined
    /\ \E payload \in ViewPayloads(viewState), succeeds \in BOOLEAN :
        LET next == rowMergeState(viewState, payload)
        IN  /\ viewState' = next
            /\ posted' = IF succeeds
                         THEN [type |-> "data", query |-> rowBuildQuery(viewPanel.dbType, next)]
                         ELSE [type |-> "error"]
    /\ UNCHANGED <<viewPanel, aggregateState, aggregatePanel, guardVars, chatVars, sessionVars, connVars, mapVars>>

\* AggregateDataProvider.showTable
AggregateShowTable ==
    \E connectionId \in ConnectionIds, table \in Tables, loads \in BOOLEAN :
      \E options \in AggregateOptions(table) :
        /\ viewPanel = Undefined
        /\ IF connectionId \notin DOMAIN StoredConnections
           THEN UNCHANGED viewVars
           ELSE LET dbType == StoredConnections[connectionId]
                    state == aggShowTable(connectionId, table.database, table.schema,
                                          table.tableName, table.columns, options)
                    query == aggBuildQuery(dbType, state)
                IN  /\ aggregateState' = state
                    /\ aggregatePanel' = IF aggregatePanel # Undefined THEN aggregatePanel
                                         ELSE Panel(dbType)
                    /\ posted' = IF loads /\ query.ok THEN [type |-> "html", query |-> query.text]
                                 ELSE posted
                    /\ UNCHANGED <<viewState, viewPanel>>
        /\ UNCHANGED <<guardVars, chatVars, sessionVars, connVars, mapVars>>

AggregateDispose ==
    /\ aggregatePanel # Undefined
    /\ aggregatePanel' = Undefined
    /\ aggregateState' = Undefined
    /\ posted' = NoMessage
    /\ UNCHANGED <<viewState, viewPanel, guardVars, chatVars, sessionVars, connVars, mapVars>>

\* what the three message handlers of the aggregate view do once the state is replaced:
\* run the query and post the data, or post the error that was thrown
aggPost(next, succeeds) ==
    LET query == aggBuildQuery(aggregatePanel.dbType, next)
    IN  IF succeeds /\ query.ok THEN [type |-> "data", query |-> query.text]
        ELSE [type |-> "error"]

\* AggregateDataProvider.handleRefreshMessage
AggregateRefresh ==
    /\ aggregatePanel # Undefined
    /\ \E payload \in AggregatePayloads(aggregateState), succeeds \in BOOLEAN :
        LET next == aggMergeState(aggregateState, payload)
        IN  /\ aggregateState' = next
            /\ posted' = aggPost(next, succeeds)
    /\ UNCHANGED <<aggregatePanel, viewState, viewPanel, guardVars, chatVars, sessionVars, connVars, mapVars>>

\* AggregateDataProvider.handleAddAggregateMessage
AggregateAdd ==
    /\ aggregatePanel # Undefined
    /\ Len(aggregateState.aggregations) < MaxAggregations
    /\ \E payload \in AddPayloads(aggregateState), succeeds \in BOOLEAN :
        LET next == addAggregate(aggregateState, payload)
        IN  /\ aggregateState' = next
            /\ posted' = aggPost(next, succeeds)
    /\ UNCHANGED <<aggregatePanel, viewState, viewPanel, guardVars, chatVars, sessionVars, connVars, mapVars>>

\* AggregateDataProvider.handleRemoveAggregateMessage
AggregateRemove ==
    /\ aggregatePanel # Undefined
    /\ \E payload \in RemovePayloads, succeeds \in BOOLEAN :
        LET next == removeAggregate(aggregateState, payload)
        IN  /\ aggregateState' = next
            /\ posted' = aggPost(next, succeeds)
    /\ UNCHANGED <<aggregatePanel, viewState, viewPanel, guardVars, chatVars, sessionVars, connVars, mapVars>>

ViewInit == GuardIdle /\ ViewIdle /\ ChatIdle /\ SessionIdle /\ ConnIdle /\ MapIdle

ViewNext ==
    \/ ViewShowTable
    \/ ViewRefresh
    \/ ViewDispose
    \/ AggregateShowTable
    \/ AggregateRefresh
    \/ AggregateAdd
    \/ AggregateRemove
    \/ AggregateDispose

ViewSpec == ViewInit /\ [][ViewNext]_vars

(***************************************************************************)
(* The chat participant                                                    *)
(***************************************************************************)
\* how the text of the model wraps a statement
Wrapped(s) ==
    { s,
      <<" "," ">> \o s \o <<" ","\n">>,
      Fence \o <<"s","q","l","\n">> \o s \o <<"\n">> \o Fence,
      <<"H","e","r","e"," ","i","s"," ","t","h","e"," ","q","u","e","r","y",":","\n">> \o Fence \o <<"\n">> \o s \o <<"\n">> \o Fence \o <<"\n","I","t"," ","l","i","s","t","s"," ","t","h","e"," ","r","o","w","s",".">>,
      Fence \o <<"S","Q","L"," ">> \o s \o Fence }

ModelTexts == UNION { Wrapped(s) : s \in Statements }

\* an environment in which every awaited call succeeds
Working(mode, text) ==
    [active |-> "ok", stored |-> TRUE, connector |-> "ok", schema |-> TRUE, model |-> TRUE,
     response |-> "text", mode |-> mode, text |-> text]

\* the environments of a request: each awaited call can fail, and what follows a failed
\* call is never read
Environments ==
    { Working(mode, text) : mode \in {"sql", "chat"}, text \in ModelTexts }
    \cup { [Working("sql", <<>>) EXCEPT !.active = a] : a \in {"none", "noDatabase"} }
    \cup { [Working("sql", <<>>) EXCEPT !.stored = FALSE] }
    \cup { [Working("sql", <<>>) EXCEPT !.connector = c] : c \in {"connectFails", "missing"} }
    \cup { [Working("sql", <<>>) EXCEPT !.schema = FALSE] }
    \cup { [Working("sql", <<>>) EXCEPT !.model = FALSE] }
    \cup { [Working("sql", <<>>) EXCEPT !.response = "throws"] }

\* the text readModelText returned, if the handler got that far
responseOf(env) ==
    IF env.active = "ok" /\ env.stored /\ env.connector = "ok" /\ env.schema /\ env.model
       /\ env.response = "text"
    THEN Str(env.text) ELSE Undefined

\* one chat request, handled from beginning to end
ChatRequest ==
    \E env \in Environments :
        LET outcome == handler(env)
        IN  /\ response' = responseOf(env)
            /\ stream' = outcome.stream
            /\ document' = outcome.document
            /\ executed' = outcome.executed
            /\ classified' = outcome.classified
            /\ UNCHANGED <<guardVars, viewVars, sessionVars, connVars, mapVars>>

ChatInit == GuardIdle /\ ViewIdle /\ ChatIdle /\ SessionIdle /\ ConnIdle /\ MapIdle

ChatNext == ChatRequest

ChatSpec == ChatInit /\ [][ChatNext]_vars

(***************************************************************************)
(* What the claims about the classifier speak of                           *)
(***************************************************************************)
Called == result # NoResult

\* the deny-list as the specification enumerates it
DenyList ==
    { <<"i","n","s","e","r","t">>, <<"u","p","d","a","t","e">>, <<"d","e","l","e","t","e">>, <<"m","e","r","g","e">>, <<"c","r","e","a","t","e">>, <<"a","l","t","e","r">>, <<"d","r","o","p">>,
      <<"t","r","u","n","c","a","t","e">>, <<"g","r","a","n","t">>, <<"r","e","v","o","k","e">>, <<"e","x","e","c">>, <<"e","x","e","c","u","t","e">>, <<"c","a","l","l">>, <<"d","o">>,
      <<"s","e","t">>, <<"u","s","e">>, <<"b","e","g","i","n">>, <<"c","o","m","m","i","t">>, <<"r","o","l","l","b","a","c","k">>, <<"s","a","v","e","p","o","i","n","t">>, <<"v","a","c","u","u","m">>,
      <<"a","n","a","l","y","z","e">>, <<"r","e","p","l","a","c","e">> }

\* the four quote styles: <<opening delimiter, closing delimiter>>
QuoteStyles == { <<"'", "'">>, <<"\"", "\"">>, <<Backtick, Backtick>>, <<"[", "]">> }

IsOpener(c) == \E q \in QuoteStyles : q[1] = c

CloserFor(c) == (CHOOSE q \in QuoteStyles : q[1] = c)[2]

\* each character of s labelled "outside", "open", "inside" or "close"; a doubled closing
\* delimiter inside a region is part of its content.  closer is "" outside a region.
RECURSIVE ScanRegions(_, _, _)
ScanRegions(s, i, closer) ==
    IF i > Len(s) THEN <<>>
    ELSE IF closer = ""
         THEN IF IsOpener(s[i])
              THEN <<"open">> \o ScanRegions(s, i + 1, CloserFor(s[i]))
              ELSE <<"outside">> \o ScanRegions(s, i + 1, "")
         ELSE IF s[i] = closer /\ i < Len(s) /\ s[i + 1] = closer
              THEN <<"inside", "inside">> \o ScanRegions(s, i + 2, closer)
              ELSE IF s[i] = closer
                   THEN <<"close">> \o ScanRegions(s, i + 1, "")
                   ELSE <<"inside">> \o ScanRegions(s, i + 1, closer)

RegionLabels(s) == ScanRegions(s, 1, "")

\* the index of the delimiter that opens a region which is never closed, 0 if there is none
UnclosedFrom(lab) ==
    LET opens == {i \in 1..Len(lab) : lab[i] = "open" /\ \A j \in (i + 1)..Len(lab) : lab[j] # "close"}
    IN  IF opens = {} THEN 0 ELSE CHOOSE i \in opens : TRUE

\* the indices strictly inside the properly closed quoted regions of s
ClosedInterior(s) ==
    LET lab == RegionLabels(s)
        u == UnclosedFrom(lab)
    IN  {i \in 1..Len(s) : lab[i] = "inside" /\ (u = 0 \/ i < u)}

\* s with every quoted region (delimiters and content) blanked: the text outside quoted regions
OutsideText(s) ==
    LET lab == RegionLabels(s)
    IN  [i \in 1..Len(s) |-> IF lab[i] = "outside" THEN s[i] ELSE " "]

\* the indices at which a maximal run of word characters of s starts
WordStarts(s) == {i \in 1..Len(s) : s[i] \in WordChars /\ (i = 1 \/ s[i - 1] \notin WordChars)}

\* the maximal run of word characters of s that starts at i
WordAt(s, i) ==
    LET ends == {j \in i..Len(s) : (\A k \in i..j : s[k] \in WordChars)
                                   /\ (j = Len(s) \/ s[j + 1] \notin WordChars)}
    IN  SubSeq(s, i, CHOOSE j \in ends : TRUE)

\* the whole words of s that are on the deny-list, letter case ignored
DeniedWords(s) == {w \in {WordAt(s, i) : i \in WordStarts(s)} : toLowerCase(w) \in DenyList}

\* the whole word of s that starts at the word start i is word, letter case ignored
IsWordAt(s, i, word) == toLowerCase(WordAt(s, i)) = word

\* a SELECT ... INTO pattern: the word select and, later, the word into
HasSelectInto(s) ==
    LET starts == WordStarts(s) IN
    \E i, j \in starts : i < j /\ IsWordAt(s, i, <<"s","e","l","e","c","t">>) /\ IsWordAt(s, j, <<"i","n","t","o">>)

\* a FOR UPDATE clause: the word for, white space, the word update
HasForUpdate(s) ==
    LET starts == WordStarts(s) IN
    \E i, j \in starts :
        /\ i + 3 < j
        /\ IsWordAt(s, i, <<"f","o","r">>)
        /\ IsWordAt(s, j, <<"u","p","d","a","t","e">>)
        /\ \A k \in (i + 3)..(j - 1) : s[k] \in Whitespace

\* sub occurs in s
Contains(s, sub) == \E i \in 1..(Len(s) - Len(sub) + 1) : SubSeq(s, i, i + Len(sub) - 1) = sub

\* the statement: the input text after its leading white space and comments
Statement == stripLeadingComments(coerceToString(input))

\* the number of characters of leading white space and comments
LeadLength == Len(coerceToString(input)) - Len(Statement)

\* text (quoted regions already blanked) holds a separator whose remainder is not blank
HasSecondStatement(text) ==
    \E i \in 1..Len(text) : text[i] = ";" /\ \E j \in (i + 1)..Len(text) : text[j] \notin Whitespace

\* the index of the first separator of text, 0 if none
FirstSeparator(text) ==
    LET semis == {i \in 1..Len(text) : text[i] = ";"}
    IN  IF semis = {} THEN 0 ELSE CHOOSE i \in semis : \A j \in semis : i <= j

IsBlank(s) == \A i \in 1..Len(s) : s[i] \in Whitespace

StartsWithSelectOrWith(s) ==
    startsWith(toLowerCase(s), <<"s","e","l","e","c","t">>) \/ startsWith(toLowerCase(s), <<"w","i","t","h">>)

(***************************************************************************)
(* C2                                                                      *)
(***************************************************************************)
\* each character of s labelled as a SQL lexer reads it: "code", "comment" (a -- line
\* comment or a /* block comment */) or "quoted" (a delimiter or the content of a quoted
\* region).  st is "code", "line", "block" or the closing delimiter of the open region.
RECURSIVE LexSql(_, _, _)
LexSql(s, i, st) ==
    IF i > Len(s) THEN <<>>
    ELSE IF st = "code"
         THEN IF IsOpener(s[i]) THEN <<"quoted">> \o LexSql(s, i + 1, CloserFor(s[i]))
              ELSE IF i < Len(s) /\ s[i] = "-" /\ s[i + 1] = "-"
                   THEN <<"comment", "comment">> \o LexSql(s, i + 2, "line")
              ELSE IF i < Len(s) /\ s[i] = "/" /\ s[i + 1] = "*"
                   THEN <<"comment", "comment">> \o LexSql(s, i + 2, "block")
              ELSE <<"code">> \o LexSql(s, i + 1, "code")
    ELSE IF st = "line"
         THEN <<"comment">> \o LexSql(s, i + 1, IF s[i] = "\n" THEN "code" ELSE "line")
    ELSE IF st = "block"
         THEN IF i < Len(s) /\ s[i] = "*" /\ s[i + 1] = "/"
              THEN <<"comment", "comment">> \o LexSql(s, i + 2, "code")
              ELSE <<"comment">> \o LexSql(s, i + 1, "block")
    ELSE IF s[i] = st /\ i < Len(s) /\ s[i + 1] = st
         THEN <<"quoted", "quoted">> \o LexSql(s, i + 2, st)
         ELSE <<"quoted">> \o LexSql(s, i + 1, IF s[i] = st THEN "code" ELSE st)

\* the state in which the lexer ends
RECURSIVE LexEnd(_, _, _)
LexEnd(s, i, st) ==
    IF i > Len(s) THEN st
    ELSE IF st = "code"
         THEN IF IsOpener(s[i]) THEN LexEnd(s, i + 1, CloserFor(s[i]))
              ELSE IF i < Len(s) /\ s[i] = "-" /\ s[i + 1] = "-" THEN LexEnd(s, i + 2, "line")
              ELSE IF i < Len(s) /\ s[i] = "/" /\ s[i + 1] = "*" THEN LexEnd(s, i + 2, "block")
              ELSE LexEnd(s, i + 1, "code")
    ELSE IF st = "line" THEN LexEnd(s, i + 1, IF s[i] = "\n" THEN "code" ELSE "line")
    ELSE IF st = "block"
         THEN IF i < Len(s) /\ s[i] = "*" /\ s[i + 1] = "/" THEN LexEnd(s, i + 2, "code")
              ELSE LexEnd(s, i + 1, "block")
    ELSE IF s[i] = st /\ i < Len(s) /\ s[i + 1] = st THEN LexEnd(s, i + 2, st)
         ELSE LexEnd(s, i + 1, IF s[i] = st THEN "code" ELSE st)

\* a quoted region of s is opened and never closed
HasUnclosedQuote(s) == LexEnd(s, 1, "code") \notin {"code", "line", "block"}

\* s holds a separator outside string literals, quoted identifiers and comments that is
\* followed by text other than white space
HasSeparatorBeforeText(s) ==
    LET lab == LexSql(s, 1, "code")
    IN  \E i \in 1..Len(s) :
            /\ lab[i] = "code"
            /\ s[i] = ";"
            /\ \E j \in (i + 1)..Len(s) : s[j] \notin Whitespace

\* s holds a deny-listed keyword outside string literals and quoted identifiers
HasKeywordOutsideLiterals(s) ==
    LET lab == LexSql(s, 1, "code")
        text == [i \in 1..Len(s) |-> IF lab[i] = "quoted" THEN " " ELSE s[i]]
    IN  DeniedWords(text) # {}

\* C2: whenever the classifier returns safe the input is a single statement: no separator
\* outside a string literal or quoted identifier is followed by text, no deny-listed
\* keyword stands outside literals, and no quoted region is left open; a quote character
\* inside a comment does not open a region.
C2_SafeIsSingleStatement ==
    (Called /\ result.isSelectOnly) =>
        LET s == coerceToString(input)
        IN  /\ ~HasUnclosedQuote(s)
            /\ ~HasSeparatorBeforeText(s)
            /\ ~HasKeywordOutsideLiterals(s)

(***************************************************************************)
(* C3                                                                      *)
(***************************************************************************)
\* s from index i on consists of white space, line comments and block comments only
RECURSIVE OnlyCommentsFrom(_, _)
OnlyCommentsFrom(s, i) ==
    IF i > Len(s) THEN TRUE
    ELSE IF s[i] \in Whitespace THEN OnlyCommentsFrom(s, i + 1)
    ELSE IF i < Len(s) /\ s[i] = "-" /\ s[i + 1] = "-"
         THEN LET ends == {j \in (i + 2)..Len(s) : s[j] = "\n"}
              IN  ends = {} \/ OnlyCommentsFrom(s, (CHOOSE j \in ends : \A k \in ends : j <= k) + 1)
    ELSE IF i < Len(s) /\ s[i] = "/" /\ s[i + 1] = "*"
         THEN LET ends == {j \in (i + 2)..(Len(s) - 1) : s[j] = "*" /\ s[j + 1] = "/"}
              IN  ends # {} /\ OnlyCommentsFrom(s, (CHOOSE j \in ends : \A k \in ends : j <= k) + 2)
    ELSE FALSE

\* the reasons that name what was found
FixedReasons == {ReasonEmpty, ReasonMultiple, ReasonNotSelect, ReasonSelectInto, ReasonForUpdate}

IsSpecificReason(r) ==
    \/ r \in FixedReasons
    \/ /\ Len(r) > Len(ReasonForbiddenPrefix) + 1
       /\ startsWith(r, ReasonForbiddenPrefix)
       /\ r[Len(r)] = "."

\* C3: the classifier is total: for every argument (a string, null or undefined) the call
\* returns a result with a boolean verdict; an unsafe result carries a non-empty, specific
\* reason and a safe result carries none; an input of white space and comments only is
\* unsafe with the reason "Empty SQL."
C3_ClassifyTotal ==
    /\ Called =>
        /\ "isSelectOnly" \in DOMAIN result
        /\ result.isSelectOnly \in BOOLEAN
        /\ ~result.isSelectOnly =>
              /\ DOMAIN result = {"isSelectOnly", "reason"}
              /\ Len(result.reason) > 0
              /\ IsSpecificReason(result.reason)
        /\ result.isSelectOnly => DOMAIN result = {"isSelectOnly"}
        /\ OnlyCommentsFrom(coerceToString(input), 1) => result = Unsafe(ReasonEmpty)

\* an input of comments only was classified
C3_Witness ==
    /\ Called
    /\ input = Str(<<"/","*"," ","c"," ","*","/"," ","-","-"," ","d","\n"," "," ">>)
    /\ result = Unsafe(ReasonEmpty)

(***************************************************************************)
(* C4                                                                      *)
(***************************************************************************)
\* what the content of the quoted regions is replaced by, repeated along the text
Fillers == { <<"x">>, <<";"," ","d","r","o","p"," ">> }

\* the input with the content of the closed quoted regions of its statement replaced
Refilled(fill) ==
    LET s == coerceToString(input)
        inside == ClosedInterior(Statement)
    IN  [i \in 1..Len(s) |->
            IF (i - LeadLength) \in inside THEN fill[((i - 1) % Len(fill)) + 1] ELSE s[i]]

\* C4: the verdict and the reason do not depend on what stands strictly inside the
\* properly closed quoted regions of the statement: the input with that content replaced
\* (by harmless text, or by separators and deny-listed keywords) is classified alike, for
\* all four quote styles, and the statement with 'a;DROP TABLE x' as a literal is safe.
C4_VerdictIgnoresQuotedContent ==
    Called =>
        /\ \A fill \in Fillers : checkSelectOnly(Str(Refilled(fill))) = result
        /\ input = Str(<<"S","E","L","E","C","T"," ","*"," ","F","R","O","M"," ","t"," ","W","H","E","R","E"," ","n","a","m","e"," ","="," ","'","a",";","D","R","O","P"," ","T","A","B","L","E"," ","x","'">>) => result = Safe

\* a statement that is safe although a separator stands inside a closed quoted region
C4_Witness ==
    /\ Called
    /\ result = Safe
    /\ \E i \in ClosedInterior(Statement) : Statement[i] = ";"

(***************************************************************************)
(* C5                                                                      *)
(***************************************************************************)
\* the input with the character at index i of its statement replaced by a space
WithoutSeparator(i) ==
    LET s == coerceToString(input)
    IN  [k \in 1..Len(s) |-> IF k = i + LeadLength THEN " " ELSE s[k]]

\* C5: when the text of the statement outside quoted regions holds a separator whose
\* remainder is not blank, the result is unsafe with the reason "Multiple statements
\* detected."; when its first separator is followed by white space only, the reason is
\* another one and the verdict is that of the statement without the separator
\* (SELECT 1; is safe, SELECT 1; SELECT 2 is not).
C5_MultipleStatements ==
    (Called /\ ~IsBlank(Statement)) =>
        LET text == OutsideText(Statement)
            first == FirstSeparator(text)
        IN  /\ HasSecondStatement(text) => result = Unsafe(ReasonMultiple)
            /\ (first # 0 /\ ~HasSecondStatement(text)) =>
                  /\ result # Unsafe(ReasonMultiple)
                  /\ result.isSelectOnly =
                        checkSelectOnly(Str(WithoutSeparator(first))).isSelectOnly
            /\ input = Str(<<"S","E","L","E","C","T"," ","1",";">>) => result = Safe
            /\ input = Str(<<"S","E","L","E","C","T"," ","1",";"," ","S","E","L","E","C","T"," ","2">>) => result = Unsafe(ReasonMultiple)

\* a statement with one trailing separator was classified safe
C5_Witness ==
    /\ Called
    /\ input = Str(<<"S","E","L","E","C","T"," ","1",";">>)
    /\ result = Safe

(***************************************************************************)
(* C6                                                                      *)
(***************************************************************************)
\* the statement is a single statement whose first word is on the deny-list
BeginsWithDeniedWord ==
    /\ ~IsBlank(Statement)
    /\ ~HasSecondStatement(OutsideText(Statement))
    /\ Statement[1] \in WordChars
    /\ toLowerCase(WordAt(Statement, 1)) \in DenyList

\* C6 as claimed: a single statement that begins with a deny-listed keyword is unsafe and
\* the reason names that keyword; the WITH statement that holds only SELECTs is safe.
C6_ReasonNamesKeyword ==
    Called =>
        /\ BeginsWithDeniedWord =>
              /\ ~result.isSelectOnly
              /\ Contains(toLowerCase(result.reason), toLowerCase(WordAt(Statement, 1)))
        /\ input = Str(<<"W","I","T","H"," ","c"," ","A","S"," ","(","S","E","L","E","C","T"," ","1",")"," ","S","E","L","E","C","T"," ","*"," ","F","R","O","M"," ","c">>) => result = Safe

\* C6 as amended: a single statement that begins with a deny-listed keyword is unsafe with
\* the reason "Statement is not a SELECT.", which does not name the keyword (the kind of the
\* statement is checked before the deny-list is scanned); the WITH statement is safe.
C6_NotSelectReason ==
    Called =>
        /\ BeginsWithDeniedWord => result = Unsafe(ReasonNotSelect)
        /\ input = Str(<<"W","I","T","H"," ","c"," ","A","S"," ","(","S","E","L","E","C","T"," ","1",")"," ","S","E","L","E","C","T"," ","*"," ","F","R","O","M"," ","c">>) => result = Safe

\* UPDATE t SET x=1 was classified
C6_Witness ==
    /\ Called
    /\ input = Str(<<"U","P","D","A","T","E"," ","t"," ","S","E","T"," ","x","=","1">>)
    /\ BeginsWithDeniedWord
    /\ result = Unsafe(ReasonNotSelect)

(***************************************************************************)
(* C7                                                                      *)
(***************************************************************************)
\* C7: for a single statement that starts with SELECT or WITH the result is unsafe when
\* the text outside quoted regions holds a deny-listed keyword as a whole word (letter case
\* ignored), a SELECT ... INTO pattern or a FOR UPDATE clause; for a keyword the reason
\* holds the keyword as matched; and without any of the three the result is safe, so a
\* deny-listed word inside a longer identifier (updated_at, set_id, dropped) rejects nothing.
C7_DenyListScan ==
    (Called /\ ~IsBlank(Statement) /\ StartsWithSelectOrWith(Statement)) =>
        LET text == OutsideText(Statement)
            denied == DeniedWords(text)
        IN  ~HasSecondStatement(text) =>
              /\ (denied # {} \/ HasSelectInto(text) \/ HasForUpdate(text)) => ~result.isSelectOnly
              /\ denied # {} =>
                    \E w \in denied : result = Unsafe(ReasonForbiddenPrefix \o w \o <<".">>)
              /\ (denied = {} /\ ~HasSelectInto(text) /\ ~HasForUpdate(text)) => result = Safe
              /\ input = Str(<<"S","E","L","E","C","T"," ","u","p","d","a","t","e","d","_","a","t",","," ","s","e","t","_","i","d"," ","F","R","O","M"," ","d","r","o","p","p","e","d">>) => result = Safe

\* a SELECT with a deny-listed word outside quoted regions was rejected for that word
C7_Witness ==
    /\ Called
    /\ StartsWithSelectOrWith(Statement)
    /\ ~HasSecondStatement(OutsideText(Statement))
    /\ <<"D","r","o","p">> \in DeniedWords(OutsideText(Statement))
    /\ result = Unsafe(ReasonForbidden(<<"D","r","o","p">>))

(***************************************************************************)
(* The views: claims                                                       *)
(***************************************************************************)
\* the elements of a list
Range(list) == {list[i] : i \in 1..Len(list)}

NoDuplicates(list) == \A i, j \in 1..Len(list) : list[i] = list[j] => i = j

\* an optional column-valued field is unset or names one of the columns
UnsetOrIn(field, columns) == field = Undefined \/ (field.t = "string" /\ field.v \in Range(columns))

\* the query texts synthesized from the state of the open view, one for each dialect, and
\* the query text the webview was last given
SynthesizedTexts ==
    (IF viewState # Undefined THEN {rowBuildQuery(d, viewState) : d \in DatabaseType} ELSE {})
    \cup (IF aggregateState # Undefined
          THEN {aggBuildQuery(d, aggregateState).text :
                    d \in {e \in DatabaseType : aggBuildQuery(e, aggregateState).ok}}
          ELSE {})
    \cup (IF posted.type \in {"html", "data"} THEN {posted.query} ELSE {})

\* C8: in every state reached from an opened row or aggregate view by merges, added and
\* removed aggregates, over tables whose names are deny-listed words or hold a separator,
\* a space or a quote character, the query synthesized for each of the three dialects is
\* classified safe by checkSelectOnly (an aggregate whose function is not a string makes
\* the synthesis throw: there is then no text to classify)
C8_SynthesizedQueriesAreSafe ==
    \A q \in SynthesizedTexts : checkSelectOnly(Str(q)) = Safe

\* an aggregate view over the table with hostile names, filtered and sorted, whose query ran
C8_Witness ==
    /\ aggregateState # Undefined
    /\ aggregateState.tableName = <<"x","]",";","y">>
    /\ aggregateState.filterField = Str(<<"a",";",Backtick,"'","b">>)
    /\ aggregateState.filterValue = Str(HostileValue)
    /\ aggregateState.sortColumn = Str(<<"c","o","u","n","t","_","a","l","l">>)
    /\ Len(aggregateState.aggregations) = 2
    /\ posted.type = "data"
    /\ Cardinality(SynthesizedTexts) >= 3

\* C9: in every state of the row view, selectedColumns is a duplicate-free subset of
\* availableColumns, sortColumn and filterField are columns of availableColumns or unset,
\* limit is one of 20, 100, 250, 1000, sortDirection is asc, desc or none, and
\* filterOperator is =, <, >, like or unset
C9_RowStateWellFormed ==
    viewState # Undefined =>
        /\ NoDuplicates(viewState.selectedColumns)
        /\ Range(viewState.selectedColumns) \subseteq Range(viewState.availableColumns)
        /\ UnsetOrIn(viewState.sortColumn, viewState.availableColumns)
        /\ UnsetOrIn(viewState.filterField, viewState.availableColumns)
        /\ viewState.limit \in {20, 100, 250, 1000}
        /\ viewState.sortDirection \in { <<"a","s","c">>, <<"d","e","s","c">>, <<"n","o","n","e">> }
        /\ viewState.filterOperator \in
              { Undefined, Str(<<"=">>), Str(<<"<">>), Str(<<">">>), Str(<<"l","i","k","e">>) }

\* a row view whose every field has been merged from payloads
C9_Witness ==
    /\ viewState # Undefined
    /\ posted.type = "data"
    /\ viewState.selectedColumns = << <<"n","a","m","e">>, <<"i","d">> >>
    /\ viewState.sortColumn = Str(<<"i","d">>)
    /\ viewState.sortDirection = <<"d","e","s","c">>
    /\ viewState.filterField = Str(<<"n","a","m","e">>)
    /\ viewState.filterOperator = Str(<<"l","i","k","e">>)
    /\ viewState.limit = 250

OutputColumns(state) ==
    {outputColumnOf(state.aggregations[i]) : i \in 1..Len(state.aggregations)} \cup { <<"c","o","u","n","t","_","a","l","l">> }

C1_ExecutesOnlyClassifiedSafe ==
    \A opened \in ({document, executed} \ {Undefined}) :
        \E text \in classified : trim(text) = trim(opened.v) /\ checkSelectOnly(Str(text)) = Safe

(***************************************************************************)
(* Query synthesis on its own: buildQuery applied to a given state         *)
(***************************************************************************)
\* the filters of a given state: none, a filter on a column, on a column that is not
\* (any longer) one of availableColumns, with a value that holds clause words, incomplete,
\* and with values that are numbers, nearly numbers, blank, padded and quoted
GivenFilters ==
    { [field |-> Undefined, op |-> Undefined, value |-> Undefined],
      [field |-> Str(<<"n","a","m","e">>), op |-> Str(<<"=">>), value |-> Str(<<"5">>)],
      [field |-> Str(UnknownColumn), op |-> Str(<<"=">>), value |-> Str(<<"5">>)],
      [field |-> Str(<<"n","a","m","e">>), op |-> Str(<<"l","i","k","e">>), value |-> Str(<<"a"," ","L","I","M","I","T"," ","5"," ","O","R","D","E","R"," ","B","Y"," ","T","O","P"," ","(","1",")"," ">>)],
      [field |-> Str(<<"n","a","m","e">>), op |-> Undefined, value |-> Str(<<"5">>)],
      [field |-> Str(<<"n","a","m","e">>), op |-> Str(<<"=">>), value |-> Str(<<"-","5">>)],
      [field |-> Str(<<"n","a","m","e">>), op |-> Str(<<"<">>), value |-> Str(<<"3",".","1","4">>)],
      [field |-> Str(<<"n","a","m","e">>), op |-> Str(<<">">>), value |-> Str(<<"5",".">>)],
      [field |-> Str(<<"n","a","m","e">>), op |-> Str(<<"<">>), value |-> Str(<<".","5">>)],
      [field |-> Str(<<"n","a","m","e">>), op |-> Str(<<"=">>), value |-> Str(<<" ","7"," ">>)],
      [field |-> Str(<<"n","a","m","e">>), op |-> Str(<<"=">>), value |-> Str(<<"a","'","b">>)],
      [field |-> Str(<<"n","a","m","e">>), op |-> Str(<<"=">>), value |-> Str(<<" "," ">>)],
      [field |-> Str(<<"n","a","m","e">>), op |-> Str(<<"l","i","k","e">>), value |-> Str(<<"5">>)],
      [field |-> Str(<<"n","a","m","e">>), op |-> Str(<<"l","i","k","e">>), value |-> Str(<<" ","o","'","%">>)] }

\* where the table of a given state is: in no named schema or database, in a schema, and in a
\* database with no schema named
GivenScopes ==
    { [schema |-> Undefined, database |-> Undefined],
      [schema |-> Str(<<"s">>), database |-> Undefined],
      [schema |-> Undefined, database |-> Str(<<"d","b">>)] }

\* the row-view states buildQuery is given
GivenRowStates ==
    { [ connectionId |-> "c1", database |-> scope.database, schema |-> scope.schema, tableName |-> <<"t">>,
        availableColumns |-> available, selectedColumns |-> selected, limit |-> limit,
        sortColumn |-> sortColumn, sortDirection |-> sortDirection,
        filterField |-> filter.field, filterOperator |-> filter.op, filterValue |-> filter.value ] :
          scope \in GivenScopes,
          available \in { <<>>, << <<"i","d">>, <<"n","a","m","e">> >> },
          selected \in { <<>>, << <<"n","a","m","e">> >>, << <<"n","a","m","e">>, <<"i","d">> >>, << UnknownColumn >> },
          limit \in RowLimits,
          sortColumn \in { Undefined, Str(<<"i","d">>), Str(UnknownColumn) },
          sortDirection \in SortDirections,
          filter \in GivenFilters }

\* the aggregation lists of a given state: grouping keys, functions, a column that is not one
\* of availableColumns, a column whose name has runs of other characters, a grouping column
\* named count_all and a count over a column named all
GivenAggregations ==
    { <<>>,
      << [field |-> <<"n","a","m","e">>, func |-> Str(<<"n","o","n","e">>)] >>,
      << [field |-> <<"i","d">>, func |-> Str(<<"s","u","m">>)] >>,
      << [field |-> <<"n","a","m","e">>, func |-> Str(<<"n","o","n","e">>)], [field |-> <<"i","d">>, func |-> Str(<<"s","u","m">>)] >>,
      << [field |-> <<"i","d">>, func |-> Str(<<"m","a","x">>)], [field |-> <<"n","a","m","e">>, func |-> Str(<<"n","o","n","e">>)],
         [field |-> <<"i","d">>, func |-> Str(<<"n","o","n","e">>)] >>,
      << [field |-> UnknownColumn, func |-> Str(<<"n","o","n","e">>)] >>,
      << [field |-> UnknownColumn, func |-> Str(<<"a","v","g">>)], [field |-> <<"i","d">>, func |-> Str(<<"m","i","n">>)] >>,
      << [field |-> <<"a",";",Backtick,"'","b">>, func |-> Str(<<"c","o","u","n","t">>)] >>,
      << [field |-> <<"c","o","u","n","t","_","a","l","l">>, func |-> Str(<<"n","o","n","e">>)] >>,
      << [field |-> <<"a","l","l">>, func |-> Str(<<"c","o","u","n","t">>)] >> }

\* the aggregate-view states buildQuery is given
GivenAggregateStates ==
    { [ connectionId |-> "c1", database |-> scope.database, schema |-> scope.schema, tableName |-> <<"t">>,
        availableColumns |-> << <<"i","d">>, <<"n","a","m","e">>, <<"a",";",Backtick,"'","b">>, <<"c","o","u","n","t","_","a","l","l">>, <<"a","l","l">> >>,
        aggregations |-> aggregations, includeCountAll |-> includeCountAll, limit |-> limit,
        sortColumn |-> sortColumn, sortDirection |-> sortDirection,
        filterField |-> filter.field, filterOperator |-> filter.op, filterValue |-> filter.value ] :
          scope \in GivenScopes,
          aggregations \in GivenAggregations,
          includeCountAll \in BOOLEAN,
          limit \in { 50, 500 },
          sortColumn \in { Undefined, Str(<<"n","a","m","e">>), Str(<<"i","d">>), Str(<<"s","u","m","_","i","d">>), Str(<<"c","o","u","n","t","_","a","l","l">>) },
          sortDirection \in SortDirections,
          filter \in GivenFilters }

\* ViewDataProvider.runQuery: the query of the state, built for the dialect of the connection
RowSynthesize ==
    /\ viewState # Undefined
    /\ posted = NoMessage
    /\ posted' = [type |-> "data", query |-> rowBuildQuery(viewPanel.dbType, viewState)]
    /\ UNCHANGED <<viewState, viewPanel, aggregateState, aggregatePanel, guardVars, chatVars, sessionVars, connVars, mapVars>>

\* AggregateDataProvider.runQuery
AggregateSynthesize ==
    /\ aggregateState # Undefined
    /\ posted = NoMessage
    /\ posted' = aggPost(aggregateState, TRUE)
    /\ UNCHANGED <<viewState, viewPanel, aggregateState, aggregatePanel, guardVars, chatVars, sessionVars, connVars, mapVars>>

SynthInit ==
    /\ GuardIdle
    /\ ChatIdle /\ SessionIdle /\ ConnIdle /\ MapIdle
    /\ posted = NoMessage
    /\ \E dbType \in DatabaseType :
          \/ /\ viewState \in GivenRowStates
             /\ viewPanel = Panel(dbType)
             /\ aggregateState = Undefined
             /\ aggregatePanel = Undefined
          \/ /\ aggregateState \in GivenAggregateStates
             /\ aggregatePanel = Panel(dbType)
             /\ viewState = Undefined
             /\ viewPanel = Undefined

SynthNext == RowSynthesize \/ AggregateSynthesize

SynthSpec == SynthInit /\ [][SynthNext]_vars

(***************************************************************************)
(* The state of the views: claims                                          *)
(***************************************************************************)
\* the limits a payload of the aggregate view is tried with
TriedLimits == { Num(n) : n \in {7, 20, 50, 100, 250, 500, 1000} } \cup { Str(<<"5","0">>), Null }

\* C11 as stated: in every state of the aggregate view, limit is one of 20, 100, 250, 1000, the
\* allowed set of the row view
C11_LimitInRowViewSet ==
    aggregateState # Undefined => aggregateState.limit \in {20, 100, 250, 1000}

\* C11: in every state of the aggregate view, limit is one of 20, 50, 100, 500, 1000; a merge
\* whose payload limit is a number of that set stores it, and a merge with any other payload
\* limit leaves limit unchanged
C11_LimitInAggregateSet ==
    aggregateState # Undefined =>
        /\ aggregateState.limit \in {20, 50, 100, 500, 1000}
        /\ \A p \in TriedLimits :
              aggMergeState(aggregateState, Single("limit", p)).limit =
                  IF p.t = "number" /\ p.v \in {20, 50, 100, 500, 1000} THEN p.v
                  ELSE aggregateState.limit

\* an aggregate view whose limit a refresh has set to 50, and whose query ran
C11_Witness ==
    /\ aggregateState # Undefined
    /\ aggregateState.limit = 50
    /\ posted.type = "data"
    /\ aggMergeState(aggregateState, Single("limit", Num(250))).limit = 50

\* C12: in every state of the aggregate view no two entries of aggregations have the same
\* field and the same function, so adding the same pair twice leaves exactly one entry
C12_PairsStayUnique ==
    aggregateState # Undefined => NoDuplicates(aggregateState.aggregations)

\* the six function names an aggregation item can carry
FunctionNames == { Str(<<"n","o","n","e">>) } \cup { Str(f) : f \in AggregateFunctions }

\* C13: in every state of the aggregate view, also the one showTable creates from the initial
\* aggregations of a field node, the field of each aggregation item is one of availableColumns
\* and its function is one of none, count, sum, avg, min, max
C13_AggregationsWellFormed ==
    aggregateState # Undefined =>
        \A i \in 1..Len(aggregateState.aggregations) :
            /\ aggregateState.aggregations[i].field \in Range(aggregateState.availableColumns)
            /\ aggregateState.aggregations[i].func \in FunctionNames

\* the payloads a removal is tried with: no payload, no index, indices inside and outside
\* the list, and indices that are not numbers
TriedRemovals ==
    RemovePayloads \cup { Undefined, Obj(<<>>), Single("index", Null), Single("index", Num(2)),
                          Single("index", Str(<<"1">>)), Single("index", Arr(<<Num(0)>>)) }

\* the list without the element at a zero-based position
Without(list, index) == SubSeq(list, 1, index) \o SubSeq(list, index + 2, Len(list))

\* C14: removing by an index that is a number within 0..length-1 gives the list without
\* exactly that element, the others in their order; a missing index, an index that is not a
\* number, a negative index and an index >= length leave the list as it is; in both cases
\* every other field of the state is unchanged
C14_RemoveByIndex ==
    aggregateState # Undefined =>
        \A p \in TriedRemovals :
            LET list == aggregateState.aggregations
                index == IF p.t = "object" /\ "index" \in DOMAIN p.v THEN p.v["index"] ELSE Undefined
                next == removeAggregate(aggregateState, p)
            IN  /\ next.aggregations =
                      IF index.t = "number" /\ index.v \in 0..(Len(list) - 1)
                      THEN Without(list, index.v) ELSE list
                /\ \A f \in DOMAIN aggregateState \ {"aggregations"} : next[f] = aggregateState[f]
                /\ DOMAIN next = DOMAIN aggregateState

\* an aggregate view opened from a field node whose grouping column, the first of two
\* entries, a removal has taken out of the list
C14_Witness ==
    /\ aggregateState # Undefined
    /\ aggregateState.includeCountAll
    /\ aggregateState.aggregations = << [field |-> <<"i","d">>, func |-> Str(<<"s","u","m">>)] >>
    /\ posted.type = "data"

\* the selections a merge of the row view is tried with
TriedSelections(state) ==
    LET c1 == state.availableColumns[1]
        c2 == state.availableColumns[2]
    IN  { <<>>, <<Str(UnknownColumn)>>, <<Num(1), Null>>, <<Str(c1)>>, <<Str(c2), Str(c2)>>,
          <<Str(c1), Str(c2)>>, <<Str(c2), Str(UnknownColumn), Str(c1), Str(c2), Str(c1)>> }

\* the position of the first occurrence of an element in a list
FirstPosition(list, x) == First({i \in 1..Len(list) : list[i] = x})

\* r holds the elements of list once each, in the order of their first occurrences
IsDeduplicated(r, list) ==
    /\ NoDuplicates(r)
    /\ Range(r) = Range(list)
    /\ \A a, b \in 1..Len(r) : a < b => FirstPosition(list, r[a]) < FirstPosition(list, r[b])

\* C15: when payload.selectedColumns is an array of which no entry is a column of
\* availableColumns (the empty array included), the merged selectedColumns is the whole of
\* availableColumns in its order; otherwise it is the payload's known columns, in payload
\* order, once each
C15_EmptySelectionRestoresAll ==
    viewState # Undefined =>
        \A sel \in TriedSelections(viewState) :
            LET next == rowMergeState(viewState, Single("selectedColumns", Arr(sel)))
                known == SelectSeq(sel, LAMBDA c : c.t = "string"
                                                   /\ c.v \in Range(viewState.availableColumns))
                names == [i \in 1..Len(known) |-> known[i].v]
            IN  IF names = <<>>
                THEN next.selectedColumns = viewState.availableColumns
                ELSE IsDeduplicated(next.selectedColumns, names)

\* a row view that opened with the one column its metadata lists, and whose selection a merge
\* that named no known column has restored to all columns
C15_Witness ==
    /\ viewState # Undefined
    /\ viewState.tableName = <<"x","]",";","y">>
    /\ viewState.selectedColumns = viewState.availableColumns
    /\ posted.type = "data"
    /\ rowMergeState(viewState, Single("selectedColumns", Arr(<<>>))).selectedColumns
          = viewState.availableColumns

\* the fields that name the table of a view
IdentityFields == {"connectionId", "database", "schema", "tableName", "availableColumns"}

\* payloads that are not objects, and objects that name no field or only fields no merge knows
ForeignPayloads ==
    { Undefined, Null, Num(0), Num(5), Str(<<>>), Str(<<"l","i","m","i","t">>), Bool(TRUE), Arr(<<>>),
      Arr(<<Num(250)>>), Obj(<<>>), Single("tableName", Str(<<"u">>)),
      Single("availableColumns", Arr(<<Str(UnknownColumn)>>)) }

\* payloads whose enumerated fields are all outside their allowed sets
OutOfSetPayloads(state) ==
    { Obj([limit |-> l, sortDirection |-> d, filterOperator |-> o]) :
          l \in { Num(7), Str(<<"2","0">>) },
          d \in { Str(<<"u","p">>), Num(1) },
          o \in { Str(<<"<",">">>), Null } }
    \cup { Obj([limit |-> Num(7), sortColumn |-> Str(state.availableColumns[1]),
                filterValue |-> Str(<<"5">>)]) }

\* the fields of a payload, none for a payload that is not an object
Named(payload) == IF payload.t = "object" THEN DOMAIN payload.v ELSE {}

\* next keeps what a merge of the payload into current must keep: the fields of the record,
\* the identity fields, every field the payload does not name, and every enumerated field the
\* payload names with a value outside the allowed set; all of current for a payload that is
\* not an object
Framed(current, payload, next, limits) ==
    /\ DOMAIN next = DOMAIN current
    /\ \A f \in IdentityFields : next[f] = current[f]
    /\ \A f \in DOMAIN current \ Named(payload) : next[f] = current[f]
    /\ payload.t # "object" => next = current
    /\ "limit" \in Named(payload) /\ ~(payload.v.limit.t = "number" /\ payload.v.limit.v \in limits)
          => next.limit = current.limit
    /\ "sortDirection" \in Named(payload)
          /\ payload.v.sortDirection \notin { Str(<<"a","s","c">>), Str(<<"d","e","s","c">>), Str(<<"n","o","n","e">>) }
          => next.sortDirection = current.sortDirection
    /\ "filterOperator" \in Named(payload)
          /\ payload.v.filterOperator \notin { Str(<<"=">>), Str(<<"<">>), Str(<<">">>), Str(<<"l","i","k","e">>) }
          => next.filterOperator = current.filterOperator

\* the current state with its aggregation list at address 1 of a heap, and an add applied to it
AddedInPlace(payload) ==
    addAggregateInPlace(<<aggregateState.aggregations>>,
                        [aggregateState EXCEPT !.aggregations = 1], payload)

\* C16: in both views a merge returns a state in which the identity fields, every field the
\* payload does not name and every enumerated field whose payload value is outside its allowed
\* set have their values of the current state, and a payload that is not an object gives a
\* state equal to the current one; add and remove change no field but aggregations; and the
\* one operation that writes to a list, the push of addAggregate, writes to a copy, so the
\* list of the current state is as it was and the result has a list of its own
C16_MergeKeepsFrame ==
    /\ viewState # Undefined =>
          \A p \in ViewPayloads(viewState) \cup ForeignPayloads \cup OutOfSetPayloads(viewState) :
              Framed(viewState, p, rowMergeState(viewState, p), {20, 100, 250, 1000})
    /\ aggregateState # Undefined =>
          /\ \A p \in AggregatePayloads(aggregateState) \cup ForeignPayloads
                        \cup OutOfSetPayloads(aggregateState) :
                 Framed(aggregateState, p, aggMergeState(aggregateState, p), {20, 50, 100, 500, 1000})
          /\ \A p \in AddPayloads(aggregateState) \cup ForeignPayloads :
                 LET next == addAggregate(aggregateState, p)
                     inPlace == AddedInPlace(p)
                 IN  /\ DOMAIN next = DOMAIN aggregateState
                     /\ \A f \in DOMAIN aggregateState \ {"aggregations"} : next[f] = aggregateState[f]
                     /\ inPlace.heap[1] = aggregateState.aggregations
                     /\ inPlace.next.aggregations # 1
                     /\ [inPlace.next EXCEPT !.aggregations = inPlace.heap[@]] = next
          /\ \A p \in RemovePayloads \cup ForeignPayloads :
                 LET next == removeAggregate(aggregateState, p)
                 IN  /\ DOMAIN next = DOMAIN aggregateState
                     /\ \A f \in IdentityFields : next[f] = aggregateState[f]

\* a row view whose limit, sort and filter merges have set, and which a payload with a limit,
\* a direction and an operator outside the allowed sets leaves as it is
C16_Witness ==
    /\ viewState # Undefined
    /\ posted.type = "data"
    /\ viewState.limit = 250
    /\ viewState.sortDirection = <<"d","e","s","c">>
    /\ viewState.filterOperator = Str(<<"=">>)
    /\ viewState.filterValue = Str(<<"5">>)
    /\ rowMergeState(viewState, Obj([limit |-> Num(7), sortDirection |-> Str(<<"u","p">>),
                                     filterOperator |-> Str(<<"<",">">>)])) = viewState

(***************************************************************************)
(* Query synthesis: claims                                                 *)
(***************************************************************************)
\* the position of the first occurrence of a text in a text, 0 when there is none
FirstIndex(s, sub) ==
    LET at == {i \in 1..(Len(s) - Len(sub) + 1) : SubSeq(s, i, i + Len(sub) - 1) = sub}
    IN  IF at = {} THEN 0 ELSE First(at)

\* how often a text occurs in a text
Occurrences(s, sub) ==
    Cardinality({i \in 1..(Len(s) - Len(sub) + 1) : SubSeq(s, i, i + Len(sub) - 1) = sub})

EndsWith(s, suffix) ==
    Len(s) >= Len(suffix) /\ SubSeq(s, Len(s) - Len(suffix) + 1, Len(s)) = suffix

\* the limits of both views as they are written in a query
CapText ==
    [n \in {20, 50, 100, 250, 500, 1000} |->
        CASE n = 20 -> <<"2","0">> [] n = 50 -> <<"5","0">> [] n = 100 -> <<"1","0","0">>
          [] n = 250 -> <<"2","5","0">> [] n = 500 -> <<"5","0","0">> [] n = 1000 -> <<"1","0","0","0">>]

\* what a query begins with up to its projection
Opening(dbType, limit) ==
    IF dbType = MSSQL THEN <<"S","E","L","E","C","T"," ","T","O","P"," ","(">> \o CapText[limit] \o <<")"," ">> ELSE <<"S","E","L","E","C","T"," ">>

\* the projection of a query: what stands between the opening and the first FROM
Projection(text, dbType, limit) ==
    SubSeq(text, Len(Opening(dbType, limit)) + 1, FirstIndex(text, <<" ","F","R","O","M"," ">>) - 1)

\* the query carries one row cap, the limit of the state: directly after SELECT for SQL
\* Server, at the end of the statement for the others; quoted text does not count
HasOneRowCap(text, dbType, limit) ==
    LET masked == stripQuotedLiterals(text)
    IN  IF dbType = MSSQL
        THEN /\ startsWith(text, <<"S","E","L","E","C","T"," ","T","O","P"," ","(">> \o CapText[limit] \o <<")"," ">>)
             /\ Occurrences(masked, <<"T","O","P"," ","(">>) = 1
             /\ Occurrences(masked, <<" ","L","I","M","I","T"," ">>) = 0
        ELSE /\ startsWith(text, <<"S","E","L","E","C","T"," ">>)
             /\ EndsWith(text, <<" ","L","I","M","I","T"," ">> \o CapText[limit])
             /\ Occurrences(masked, <<" ","L","I","M","I","T"," ">>) = 1
             /\ Occurrences(masked, <<"T","O","P"," ","(">>) = 0
             /\ FirstIndex(masked, <<" ","O","R","D","E","R"," ","B","Y"," ">>) < FirstIndex(masked, <<" ","L","I","M","I","T"," ">>)

\* the state of the row view a query was synthesized from, and the query
RowSynthesized == viewState # Undefined /\ posted.type = "data"

AggregateSynthesized == aggregateState # Undefined /\ posted.type = "data"

\* the term that counts all rows, as each dialect quotes its alias
CountAllTerm(dbType) ==
    IF dbType = MSSQL THEN <<"C","O","U","N","T","(","*",")"," ","A","S"," ","[","c","o","u","n","t","_","a","l","l","]">>
    ELSE IF dbType = MySQL THEN <<"C","O","U","N","T","(","*",")"," ","A","S"," ",Backtick,"c","o","u","n","t","_","a","l","l",Backtick>>
    ELSE <<"C","O","U","N","T","(","*",")"," ","A","S"," ","\"","c","o","u","n","t","_","a","l","l","\"">>

\* C18: no aggregate query holds the term COUNT(*) AS count_all more than once, and a query
\* synthesized from a state whose aggregation list is empty or whose includeCountAll is set
\* holds it exactly once, also when a grouping column is named count_all and when an
\* aggregation has the alias count_all
C18_ExactlyOneCountAll ==
    AggregateSynthesized =>
        LET terms == Occurrences(posted.query, CountAllTerm(aggregatePanel.dbType))
        IN  /\ terms <= 1
            /\ aggregateState.aggregations = <<>> \/ aggregateState.includeCountAll => terms = 1

\* the function of an aggregation as a query writes it
FunctionText(func) ==
    CASE func = Str(<<"c","o","u","n","t">>) -> <<"C","O","U","N","T">> [] func = Str(<<"s","u","m">>) -> <<"S","U","M">>
      [] func = Str(<<"a","v","g">>) -> <<"A","V","G">> [] func = Str(<<"m","i","n">>) -> <<"M","I","N">>
      [] func = Str(<<"m","a","x">>) -> <<"M","A","X">>

\* a name with every character that is not a letter or a digit replaced by an underscore
UnderscorePerCharacter(name) ==
    [i \in 1..Len(name) |-> IF name[i] \in Letters \cup Digits THEN name[i] ELSE "_"]

\* a name with every run of characters that are not letters, digits or underscores replaced
\* by one underscore
UnderscorePerRun(name) ==
    LET marked == [i \in 1..Len(name) |->
                      IF name[i] \in Letters \cup Digits \cup {"_"} THEN name[i]
                      ELSE IF i = 1 \/ name[i - 1] \in Letters \cup Digits \cup {"_"} THEN "_"
                      ELSE ""]
    IN  SelectSeq(marked, LAMBDA c : c # "")

\* what an aggregation contributes to the projection, for a way of writing the alias
ProjectionTerm(dbType, agg, Alias(_)) ==
    IF agg.func = Str(<<"n","o","n","e">>) THEN quoteIdentifier(dbType, agg.field)
    ELSE FunctionText(agg.func) \o <<"(">> \o quoteIdentifier(dbType, agg.field) \o <<")"," ","A","S"," ">>
            \o quoteIdentifier(dbType, agg.func.v \o <<"_">> \o Alias(agg.field))

\* the quoted columns of the grouping keys among aggregations, in list order
GroupingKeys(dbType, aggs) ==
    LET keys == SelectSeq(aggs, LAMBDA a : a.func = Str(<<"n","o","n","e">>))
    IN  [i \in 1..Len(keys) |-> quoteIdentifier(dbType, keys[i].field)]

\* the list of a query's GROUP BY clause: what stands between GROUP BY and ORDER BY, LIMIT or
\* the end
GroupList(text) ==
    LET rest == SubSeq(text, FirstIndex(text, <<" ","G","R","O","U","P"," ","B","Y"," ">>) + 10, Len(text))
        ends == {FirstIndex(rest, <<" ","O","R","D","E","R"," ","B","Y"," ">>), FirstIndex(rest, <<" ","L","I","M","I","T"," ">>)} \ {0}
    IN  IF ends = {} THEN rest ELSE SubSeq(rest, 1, First(ends) - 1)

\* the projection and the GROUP BY clause of the query are what the aggregations contribute,
\* in list order, the projection followed by at most the term that counts all rows
Contributed(aggs, Alias(_)) ==
    LET dbType == aggregatePanel.dbType
        terms == [i \in 1..Len(aggs) |-> ProjectionTerm(dbType, aggs[i], Alias)]
        keys == GroupingKeys(dbType, aggs)
        projection == Projection(posted.query, dbType, aggregateState.limit)
    IN  /\ IF aggs = <<>> THEN projection = CountAllTerm(dbType)
           ELSE \E tail \in { <<>>, <<CountAllTerm(dbType)>> } : projection = join(terms \o tail, <<","," ">>)
        /\ Contains(posted.query, <<" ","G","R","O","U","P"," ","B","Y"," ">>) <=> keys # <<>>
        /\ keys # <<>> => GroupList(posted.query) = join(keys, <<","," ">>)

\* C19 as stated: each aggregation with function none contributes its quoted column to the
\* projection and to GROUP BY, in list order; each other aggregation contributes
\* FUNCTION(column) AS alias to the projection only, the alias being the function name, an
\* underscore and the column name with every character that is not a letter or a digit
\* replaced by an underscore; GROUP BY is present exactly when there is a grouping key (for
\* states whose aggregations all name columns of availableColumns)
C19_AliasUnderscorePerCharacter ==
    AggregateSynthesized
    /\ (\A i \in 1..Len(aggregateState.aggregations) :
            aggregateState.aggregations[i].field \in Range(aggregateState.availableColumns))
    => Contributed(aggregateState.aggregations, UnderscorePerCharacter)

\* C19: each aggregation whose field is one of availableColumns contributes, in list order,
\* its quoted column to the projection and to GROUP BY when its function is none, and
\* FUNCTION(column) AS alias to the projection only otherwise, the alias being the function
\* name, an underscore and the column name with every run of characters that are not
\* letters, digits or underscores replaced by one underscore; an aggregation whose field is
\* not one of availableColumns contributes nothing; GROUP BY is present exactly when there is
\* a grouping key
C19_AliasUnderscorePerRun ==
    AggregateSynthesized =>
        Contributed(SelectSeq(aggregateState.aggregations,
                              LAMBDA a : a.field \in Range(aggregateState.availableColumns)),
                    UnderscorePerRun)

\* the query of a maximum and two grouping keys
C19_Witness ==
    /\ AggregateSynthesized
    /\ aggregatePanel.dbType = MSSQL
    /\ Len(aggregateState.aggregations) = 3
    /\ posted.query = <<"S","E","L","E","C","T"," ","T","O","P"," ","(","5","0",")"," ","M","A","X","(","[","i","d","]",")"," ","A","S"," ","[","m","a","x","_","i","d","]",","," ","[","n","a","m","e","]",","," ","[","i","d","]"," ","F","R","O","M"," ","[","t","]"," ","G","R","O","U","P"," ","B","Y"," ","[","n","a","m","e","]",","," ","[","i","d","]">>

\* the direction of a sort as a query writes it
DirectionText(direction) == IF direction = <<"a","s","c">> THEN <<"A","S","C">> ELSE <<"D","E","S","C">>

\* the columns an aggregate query puts out: the grouping columns and the aliases of the
\* aggregations whose field is one of availableColumns, and count_all when the query counts
\* all rows
SynthesizedOutput(state, text, dbType) ==
    LET aggs == SelectSeq(state.aggregations, LAMBDA a : a.field \in Range(state.availableColumns))
    IN  { IF aggs[i].func = Str(<<"n","o","n","e">>) THEN aggs[i].field
          ELSE aggs[i].func.v \o <<"_">> \o UnderscorePerRun(aggs[i].field) : i \in 1..Len(aggs) }
        \cup (IF Contains(text, CountAllTerm(dbType)) THEN { <<"c","o","u","n","t","_","a","l","l">> } ELSE {})

\* the query has no WHERE clause when the filter field is not one of availableColumns, and an
\* ORDER BY clause only for a direction asc or desc and a sort column of the validated set,
\* which the clause then names
OmitsStale(state, text, dbType, validated) ==
    /\ ~UnsetOrIn(state.filterField, state.availableColumns) \/ state.filterField = Undefined
          => ~Contains(stripQuotedLiterals(text), <<" ","W","H","E","R","E"," ">>)
    /\ Contains(stripQuotedLiterals(text), <<" ","O","R","D","E","R"," ","B","Y"," ">>)
          => /\ state.sortDirection \in { <<"a","s","c">>, <<"d","e","s","c">> }
             /\ state.sortColumn # Undefined
             /\ state.sortColumn.v \in validated
             /\ Contains(text, <<" ","O","R","D","E","R"," ","B","Y"," ">> \o quoteIdentifier(dbType, state.sortColumn.v)
                                 \o <<" ">> \o DirectionText(state.sortDirection))

\* C20: synthesis posts a query and no error for states with stale references; a filterField
\* outside availableColumns gives no WHERE clause; ORDER BY is emitted only for a direction
\* asc or desc and a sortColumn in availableColumns (row view) or among the output columns of
\* the query (aggregate view), so a sortColumn that names the alias of an aggregation no
\* longer in the list, or a table column that is not a grouping key, gives no ORDER BY
C20_StaleReferencesOmitted ==
    /\ viewState # Undefined /\ posted # NoMessage =>
          /\ posted.type = "data"
          /\ OmitsStale(viewState, posted.query, viewPanel.dbType, Range(viewState.availableColumns))
    /\ aggregateState # Undefined /\ posted # NoMessage =>
          /\ posted.type = "data"
          /\ OmitsStale(aggregateState, posted.query, aggregatePanel.dbType,
                        SynthesizedOutput(aggregateState, posted.query, aggregatePanel.dbType))

\* an aggregate query for a state sorted by the alias sum_id, whose aggregation is not in the
\* list, and filtered on a column that is not one of availableColumns: no ORDER BY, no WHERE
C20_Witness ==
    /\ AggregateSynthesized
    /\ aggregateState.sortColumn = Str(<<"s","u","m","_","i","d">>)
    /\ aggregateState.sortDirection = <<"d","e","s","c">>
    /\ aggregateState.filterField = Str(UnknownColumn)
    /\ aggregateState.aggregations = << [field |-> <<"n","a","m","e">>, func |-> Str(<<"n","o","n","e">>)] >>
    /\ aggregatePanel.dbType = PostgreSQL
    /\ posted.query = <<"S","E","L","E","C","T"," ","\"","n","a","m","e","\""," ","F","R","O","M"," ","\"","t","\""," ","G","R","O","U","P"," ","B","Y"," ","\"","n","a","m","e","\""," ","L","I","M","I","T"," ","5","0","0">>

\* a text with every single quote doubled
RECURSIVE QuotesDoubled(_)
QuotesDoubled(s) ==
    IF s = <<>> THEN <<>>
    ELSE (IF s[1] = "'" THEN <<"'","'">> ELSE <<s[1]>>) \o QuotesDoubled(Tail(s))

SingleQuoted(s) == <<"'">> \o QuotesDoubled(s) \o <<"'">>

\* an optional minus, one or more digits, and optionally a point followed by one or more digits
MatchesNumeric(s) ==
    LET body == IF s # <<>> /\ s[1] = "-" THEN Tail(s) ELSE s
        AllDigits(a, b) == \A i \in a..b : body[i] \in Digits
    IN  \E k \in 1..Len(body) :
            /\ AllDigits(1, k)
            /\ \/ k = Len(body)
               \/ k + 2 <= Len(body) /\ body[k + 1] = "." /\ AllDigits(k + 2, Len(body))

\* the trimmed filter value of a state
TrimmedValue(state) == IF state.filterValue = Undefined THEN <<>> ELSE trim(state.filterValue.v)

\* the state has a predicate: a filter field of availableColumns, an operator and a value
HasPredicate(state) ==
    /\ state.filterField # Undefined
    /\ state.filterField.v \in Range(state.availableColumns)
    /\ state.filterOperator # Undefined
    /\ TrimmedValue(state) # <<>>

\* the WHERE clause of a state that has a predicate
PredicateText(state, dbType) ==
    LET value == TrimmedValue(state)
    IN  <<" ","W","H","E","R","E"," ">> \o quoteIdentifier(dbType, state.filterField.v) \o <<" ">>
            \o (IF state.filterOperator = Str(<<"l","i","k","e">>) THEN <<"L","I","K","E"," ">> \o SingleQuoted(value)
                ELSE state.filterOperator.v \o <<" ">>
                         \o (IF MatchesNumeric(value) THEN value ELSE SingleQuoted(value)))

\* the query of the state has the one predicate of the state right after its FROM target,
\* or no WHERE clause when the state has no predicate
WhereAsFiltered(state, text, dbType) ==
    LET masked == stripQuotedLiterals(text)
        after == SubSeq(text, FirstIndex(text, <<" ","F","R","O","M"," ">>) + 6, Len(text))
        expected == fromTargetOf(dbType, state) \o PredicateText(state, dbType)
        rest == SubSeq(after, Len(expected) + 1, Len(after))
    IN  IF HasPredicate(state)
        THEN /\ Occurrences(masked, <<" ","W","H","E","R","E"," ">>) = 1
             /\ Occurrences(masked, <<" ","A","N","D"," ">>) = 0
             /\ startsWith(after, expected)
             /\ \/ rest = <<>>
                \/ \E clause \in { <<" ","G","R","O","U","P"," ","B","Y"," ">>, <<" ","O","R","D","E","R"," ","B","Y"," ">>, <<" ","L","I","M","I","T"," ">> } : startsWith(rest, clause)
        ELSE Occurrences(masked, <<" ","W","H","E","R","E"," ">>) = 0

\* C21: a query of either view has at most one predicate, and has it only when filterField is
\* one of availableColumns, filterOperator is set and the trimmed filterValue is not empty;
\* for like the trimmed value is written as a single-quoted literal with its quotes doubled,
\* also when it is a number; for =, < and > it is written unquoted exactly when it matches the
\* numeric pattern, and as a single-quoted literal with its quotes doubled otherwise
C21_WherePredicate ==
    /\ RowSynthesized => WhereAsFiltered(viewState, posted.query, viewPanel.dbType)
    /\ AggregateSynthesized => WhereAsFiltered(aggregateState, posted.query, aggregatePanel.dbType)

\* a row query filtered by like on a number, which is quoted
C21_Witness ==
    /\ RowSynthesized
    /\ viewState.filterOperator = Str(<<"l","i","k","e">>)
    /\ viewState.filterValue = Str(<<"5">>)
    /\ viewPanel.dbType = PostgreSQL
    /\ Contains(posted.query, <<" ","W","H","E","R","E"," ","\"","n","a","m","e","\""," ","L","I","K","E"," ","'","5","'">>)

\* the FROM target of a query: what stands between FROM and the next clause or the end
FromTarget(text) ==
    LET after == SubSeq(text, FirstIndex(text, <<" ","F","R","O","M"," ">>) + 6, Len(text))
        ends == { FirstIndex(after, clause) :
                    clause \in { <<" ","W","H","E","R","E"," ">>, <<" ","G","R","O","U","P"," ","B","Y"," ">>, <<" ","O","R","D","E","R"," ","B","Y"," ">>, <<" ","L","I","M","I","T"," ">> } } \ {0}
    IN  IF ends = {} THEN after ELSE SubSeq(after, 1, First(ends) - 1)

\* the qualified name of a table as the dialect composes it: SQL Server under the schema, dbo
\* when none is named; MySQL under the schema or else the database; PostgreSQL under the
\* schema only
QualifiedName(dbType, state) ==
    LET table == quoteIdentifier(dbType, state.tableName)
        Under(scope) == quoteIdentifier(dbType, scope) \o <<".">> \o table
    IN  IF dbType = MSSQL
        THEN Under(IF state.schema # Undefined THEN state.schema.v ELSE <<"d","b","o">>)
        ELSE IF dbType = MySQL
        THEN IF state.schema # Undefined THEN Under(state.schema.v)
             ELSE IF state.database # Undefined THEN Under(state.database.v)
             ELSE table
        ELSE IF state.schema # Undefined THEN Under(state.schema.v) ELSE table

\* C22: the FROM target of a row-view or aggregate query is the dialect's qualified name of
\* the table: [dbo].[table] for SQL Server when no schema is set, the table under its database
\* for MySQL when no schema but a database is set, the table under its schema only for
\* PostgreSQL
C22_FromTargetIsQualifiedName ==
    /\ RowSynthesized => FromTarget(posted.query) = QualifiedName(viewPanel.dbType, viewState)
    /\ AggregateSynthesized =>
          FromTarget(posted.query) = QualifiedName(aggregatePanel.dbType, aggregateState)


(***************************************************************************)
(* The view-data command                                                   *)
(***************************************************************************)
\* the row view shows the page showTable loaded for the state it holds
InitialLoad == viewState # Undefined /\ posted.type = "html"

\* C25 as stated: the query the view-data command first synthesizes for a table carries
\* a row cap of 1000 (the documentation's "top 1000 rows")
C25_InitialCapIsThousand ==
    InitialLoad =>
        HasOneRowCap(posted.query, StoredConnections[viewState.connectionId], 1000)

(***************************************************************************)
(* The connection a view's handlers use                                    *)
(***************************************************************************)
\* C26 as stated: every query a refresh, add or remove message runs is synthesized with
\* the dialect of the connection named by the current state's connectionId (the dialect is
\* captured together with the connector, and each stored connection has its own), also
\* after showTable was called again for another connection while the panel is open
C26_QueriesUseCurrentConnection ==
    [][ /\ ViewRefresh /\ posted'.type = "data" =>
            posted'.query =
                rowBuildQuery(StoredConnections[viewState'.connectionId], viewState')
        /\ (AggregateRefresh \/ AggregateAdd \/ AggregateRemove) /\ posted'.type = "data" =>
            posted'.query =
                aggBuildQuery(StoredConnections[aggregateState'.connectionId],
                              aggregateState').text ]_vars

(***************************************************************************)
(* A view session with its await points: showTable and the message         *)
(* handlers give up control while connector.executeQuery runs, and other   *)
(* handlers and the panel's disposal run in between                        *)
(***************************************************************************)
\* the most showTable calls and webview messages of a run
MaxHandlers == 3

Views == {"row", "aggregate"}

\* the table the sessions open
SessionTable == CHOOSE table \in Tables : table.schema = Undefined

\* what connector.executeQuery throws when it fails
Failures == { Obj([message |-> Str(<<"t","i","m","e","o","u","t">>)]), Str(<<"x">>), Null }

\* how an awaited connector.executeQuery ends: with a result, or throwing
Outcomes == { [ok |-> TRUE] } \cup { [ok |-> FALSE, thrown |-> e] : e \in Failures }

\* the messages the page sends, by view
SessionMessages(view) ==
    LET c1 == SessionTable.columns[1]
    IN  IF view = "row"
        THEN { [type |-> "refresh", payload |-> Single("limit", Num(250))],
               [type |-> "refresh", payload |-> Single("limit", Num(20))] }
        ELSE { [type |-> "refresh", payload |-> Single("limit", Num(50))],
               [type |-> "addAggregate", payload |-> Obj([field |-> Str(c1), func |-> Str(<<"s","u","m">>)])],
               [type |-> "addAggregate",
                payload |-> Obj([field |-> Str(c1), func |-> Arr(<<Str(<<"c","o","u","n","t">>)>>)])],
               [type |-> "removeAggregate", payload |-> Single("index", Num(0))] }

\* this.state and this.panel of a provider
stateOf(view) == IF view = "row" THEN viewState ELSE aggregateState
panelOf(view) == IF view = "row" THEN viewPanel ELSE aggregatePanel

\* this.state = state; this.panel = panel
Assign(view, state, panel) ==
    IF view = "row"
    THEN viewState' = state /\ viewPanel' = panel /\ UNCHANGED <<aggregateState, aggregatePanel>>
    ELSE aggregateState' = state /\ aggregatePanel' = panel /\ UNCHANGED <<viewState, viewPanel>>

\* the state showTable builds
shownState(view, connectionId) ==
    IF view = "row"
    THEN rowShowTable(connectionId, SessionTable.database, SessionTable.schema,
                      SessionTable.tableName, SessionTable.columns, SessionTable.viewInList)
    ELSE aggShowTable(connectionId, SessionTable.database, SessionTable.schema,
                      SessionTable.tableName, SessionTable.columns, Undefined)

\* the state a handler computes from this.state and the payload
nextState(view, type, current, payload) ==
    CASE view = "row" -> rowMergeState(current, payload)
      [] view = "aggregate" /\ type = "refresh" -> aggMergeState(current, payload)
      [] view = "aggregate" /\ type = "addAggregate" -> addAggregate(current, payload)
      [] view = "aggregate" /\ type = "removeAggregate" -> removeAggregate(current, payload)

\* buildQuery of a provider: the text, or the TypeError it throws; reading a property of
\* an undefined state throws as well
buildQueryOf(view, dbType, state) ==
    IF state = Undefined THEN [ok |-> FALSE, error |-> "TypeError"]
    ELSE IF view = "row" THEN [ok |-> TRUE, text |-> rowBuildQuery(dbType, state)]
    ELSE aggBuildQuery(dbType, state)

\* String(e)
messageOfText(e) == Str(toStr(e))

\* e?.message ?? String(e)
messageOf(e) ==
    LET message == getOptional(e, "message")
    IN  IF message.t \in {"null", "undefined"} THEN Str(toStr(e)) ELSE message

\* the message of the TypeError a failing buildQuery throws
TypeErrorMessage == Str(<<"T","y","p","e","E","r","r","o","r">>)

\* the page after the script handled a message of the extension
pageAfter(message) ==
    IF ~webview.loaded THEN webview
    ELSE IF message.type = "data"
    THEN [loaded |-> TRUE, state |-> message.state, query |-> message.query,
          result |-> message.result]
    ELSE webview

\* how a handler ended: what the executor gave it (Undefined when it was not called),
\* whether this.panel was set when the handler went on, the messages it posted and
\* whether its promise resolved or rejected
Ended(pending, executor, open, sent, outcome) ==
    [id |-> pending.id, type |-> pending.type, state |-> pending.state, sql |-> pending.sql,
     executor |-> executor, open |-> open, sent |-> sent, outcome |-> outcome]

\* showTable up to the await of the initial load (lines 43-107): the state is assigned, the
\* panel created or revealed, and the query handed to the connector
SessionOpen ==
    \E view \in Views, connectionId \in DOMAIN StoredConnections :
        LET dbType == StoredConnections[connectionId]
            state == shownState(view, connectionId)
            panel == panelOf(view)
            query == buildQueryOf(view, dbType, state)
            id == started + 1
        IN  /\ started < MaxHandlers
            /\ \A other \in Views \ {view} : panelOf(other) = Undefined
            /\ started' = id
            /\ Assign(view, state, IF panel # Undefined THEN panel ELSE Panel(dbType))
            /\ webview' = IF panel # Undefined THEN webview ELSE NoPage
            /\ calls' = Append(calls, [id |-> id, sql |-> query.text])
            /\ inflight' = inflight \cup
                   {[id |-> id, view |-> view, type |-> "show", dbType |-> dbType,
                     state |-> state, sql |-> query.text]}
            /\ UNCHANGED <<posted, settled, guardVars, chatVars, connVars, mapVars>>

\* showTable after the await (lines 107-109): the query is built again from this.state
\* as it is now and the page is replaced; a failed load, an undefined state or panel
\* makes showTable reject
SessionLoaded ==
    \E pending \in inflight, outcome \in Outcomes :
        LET state == stateOf(pending.view)
            panel == panelOf(pending.view)
            query == buildQueryOf(pending.view, pending.dbType, state)
            shown == outcome.ok /\ query.ok /\ panel # Undefined
        IN  /\ pending.type = "show"
            /\ inflight' = inflight \ {pending}
            /\ settled' = settled \cup
                   {Ended(pending, outcome, panel # Undefined, <<>>,
                          IF shown THEN "resolved" ELSE "rejected")}
            /\ webview' = IF shown
                          THEN [loaded |-> TRUE, state |-> state, query |-> query.text,
                                result |-> pending.sql]
                          ELSE webview
            /\ posted' = IF shown THEN [type |-> "html", query |-> query.text] ELSE posted
            /\ UNCHANGED <<started, calls, viewState, viewPanel, aggregateState, aggregatePanel,
                           guardVars, chatVars, connVars, mapVars>>

\* a message of the page, handled up to the await of the query (lines 113-122): the
\* state is replaced and the query handed to the connector; a buildQuery that throws is
\* caught and reported at once
SessionReceive ==
    \E view \in Views :
      \E message \in SessionMessages(view) :
        LET panel == panelOf(view)
            next == nextState(view, message.type, stateOf(view), message.payload)
            query == buildQueryOf(view, panel.dbType, next)
            id == started + 1
            pending == [id |-> id, view |-> view, type |-> message.type, dbType |-> panel.dbType,
                        state |-> next, sql |-> IF query.ok THEN query.text ELSE <<>>]
            failed == [type |-> "error", message |-> TypeErrorMessage]
        IN  /\ started < MaxHandlers
            /\ panel # Undefined /\ stateOf(view) # Undefined
            /\ webview.loaded
            /\ view = "aggregate" /\ message.type = "addAggregate" =>
                   Len(aggregateState.aggregations) < MaxAggregations
            /\ started' = id
            /\ Assign(view, next, panel)
            /\ IF query.ok
               THEN /\ calls' = Append(calls, [id |-> id, sql |-> query.text])
                    /\ inflight' = inflight \cup {pending}
                    /\ UNCHANGED <<posted, settled, webview>>
               ELSE /\ posted' = failed
                    /\ settled' = settled \cup
                           {Ended(pending, Undefined, TRUE, <<failed>>, "resolved")}
                    /\ webview' = pageAfter(failed)
                    /\ UNCHANGED <<calls, inflight>>
            /\ UNCHANGED <<guardVars, chatVars, connVars, mapVars>>

\* a message that is delivered when the panel is gone: the handler returns at its guard
\* (line 114)
SessionReceiveLate ==
    \E view \in Views :
      \E message \in SessionMessages(view) :
        /\ started < MaxHandlers
        /\ started > 0
        /\ \A other \in Views : panelOf(other) = Undefined
        /\ started' = started + 1
        /\ settled' = settled \cup
               {Ended([id |-> started + 1, type |-> message.type, state |-> Undefined,
                       sql |-> <<>>], Undefined, FALSE, <<>>, "resolved")}
        /\ UNCHANGED <<inflight, calls, webview, viewVars, guardVars, chatVars, connVars, mapVars>>

\* a message handler after the await (lines 123-136): the data or the error is posted to
\* this.panel as it is now; when the panel is gone this.panel.webview throws in the try
\* block and again in the catch block, and the handler rejects
SessionSettle ==
    \E pending \in inflight :
      \E outcome \in Outcomes :
        LET panel == panelOf(pending.view)
            message == IF outcome.ok
                       THEN [type |-> "data", state |-> pending.state, result |-> pending.sql,
                             query |-> buildQueryOf(pending.view, pending.dbType, pending.state).text]
                       ELSE [type |-> "error", message |-> messageOf(outcome.thrown)]
        IN  /\ pending.type # "show"
            /\ inflight' = inflight \ {pending}
            /\ IF panel = Undefined
               THEN /\ settled' = settled \cup
                           {Ended(pending, outcome, FALSE, <<>>, "rejected")}
                    /\ UNCHANGED <<posted, webview>>
               ELSE /\ settled' = settled \cup
                           {Ended(pending, outcome, TRUE, <<message>>, "resolved")}
                    /\ posted' = message
                    /\ webview' = pageAfter(message)
            /\ UNCHANGED <<started, calls, viewState, viewPanel, aggregateState, aggregatePanel,
                           guardVars, chatVars, connVars, mapVars>>

\* a disposal that drops the panel and keeps the state
SessionDisposeKeepingState ==
    \E view \in Views :
        /\ panelOf(view) # Undefined
        /\ Assign(view, stateOf(view), Undefined)
        /\ webview' = NoPage
        /\ posted' = NoMessage
        /\ UNCHANGED <<started, inflight, calls, settled, guardVars, chatVars, connVars, mapVars>>

\* the panel's onDidDispose callback (lines 87-90)
SessionDispose ==
    \E view \in Views :
        /\ panelOf(view) # Undefined
        /\ Assign(view, Undefined, Undefined)
        /\ webview' = NoPage
        /\ posted' = NoMessage
        /\ UNCHANGED <<started, inflight, calls, settled, guardVars, chatVars, connVars, mapVars>>

SessionInit == GuardIdle /\ ViewIdle /\ ChatIdle /\ SessionIdle /\ ConnIdle /\ MapIdle

SessionNext ==
    \/ SessionOpen
    \/ SessionLoaded
    \/ SessionReceive
    \/ SessionReceiveLate
    \/ SessionSettle
    \/ SessionDispose

SessionSpec == SessionInit /\ [][SessionNext]_vars

(***************************************************************************)
(* Failures of the executor                                                *)
(***************************************************************************)
\* the handlers of refresh, addAggregate and removeAggregate messages that have ended
EndedMessages == {e \in settled : e.type # "show"}

\* the executor was called for the handler and threw
ExecutorFailed(e) == "ok" \in DOMAIN e.executor /\ ~e.executor.ok

\* how often the executor was called for a handler
CallsOf(id) == Cardinality({i \in DOMAIN calls : calls[i].id = id})

\* the text of a failure: the message of an error object, the text of anything else
FailureText(thrown) ==
    CASE thrown.t = "object" -> thrown.v.message
      [] thrown.t = "string" -> thrown
      [] thrown.t = "null" -> Str(<<"n","u","l","l">>)

\* C23 as stated: when the executor fails for a refresh, add or remove request the view is
\* sent, once, the failure together with the synthesized SQL and the originating state and
\* no data message, and every request causes exactly one execute call
C23_FailureCarriesQueryAndState ==
    /\ \A e \in EndedMessages :
           ExecutorFailed(e) /\ e.open =>
               e.sent = << [type |-> "error", message |-> FailureText(e.executor.thrown),
                            query |-> e.sql, state |-> e.state] >>
    /\ \A e \in EndedMessages : e.state # Undefined => CallsOf(e.id) = 1

\* C23, amended: when the executor fails for a refresh, add or remove request and the
\* panel is open when the failure arrives, the view is sent exactly one message, of type
\* error, holding the failure's text and nothing else; no data message is sent for the
\* request; no request causes more than one execute call, and a request whose query could
\* be built causes exactly one
C23_FailureForwardedAsText ==
    /\ \A e \in EndedMessages :
           ExecutorFailed(e) =>
               /\ e.open => e.sent = << [type |-> "error",
                                         message |-> FailureText(e.executor.thrown)] >>
               /\ \A i \in DOMAIN e.sent : e.sent[i].type # "data"
    /\ \A id \in 1..started : CallsOf(id) <= 1
    /\ \A e \in settled : CallsOf(e.id) = (IF e.executor = Undefined THEN 0 ELSE 1)
    /\ \A pending \in inflight : CallsOf(pending.id) = 1

\* the executor threw an error object for a request of an open panel
C23_Witness ==
    \E e \in EndedMessages :
        /\ ExecutorFailed(e) /\ e.open
        /\ e.executor.thrown.t = "object"
        /\ e.outcome = "resolved"

(***************************************************************************)
(* The life of a view's state                                              *)
(***************************************************************************)
\* the states a step of a provider may assign: none, the state showTable builds for a
\* table, or the result of merge, add or remove on the state it holds
Replacements(view) ==
    { Undefined }
    \cup { shownState(view, connectionId) : connectionId \in DOMAIN StoredConnections }
    \cup (IF stateOf(view) = Undefined THEN {}
          ELSE { nextState(view, message.type, stateOf(view), message.payload) :
                     message \in SessionMessages(view) })

\* a step in which showTable assigns the state of a view
Opens(view) == \E pending \in inflight' \ inflight : pending.type = "show" /\ pending.view = view

\* a step in which the panel's disposal callback runs
Disposes(view) == panelOf(view) # Undefined /\ panelOf(view)' = Undefined

\* C24: whenever control is back at the event loop a view's state is unset exactly if its
\* panel is unset; a step changes the state only to a whole new state, built by showTable
\* or by merge, add or remove from the state held, or discards it with the panel; and
\* while the panel is unset no message handler calls the executor or assigns a state
C24_StateLivesWithPanel ==
    /\ [](\A view \in Views : stateOf(view) = Undefined <=> panelOf(view) = Undefined)
    /\ [][\A view \in Views :
            /\ stateOf(view)' # stateOf(view) => stateOf(view)' \in Replacements(view)
            /\ stateOf(view)' = Undefined /\ stateOf(view) # Undefined => Disposes(view)
            /\ Disposes(view) => stateOf(view)' = Undefined
            /\ panelOf(view) = Undefined /\ ~Opens(view) =>
                   /\ stateOf(view)' = Undefined
                   /\ \A i \in DOMAIN calls' \ DOMAIN calls :
                          \E pending \in inflight' : pending.id = calls'[i].id /\ pending.view # view
          ]_vars

\* a message was handled after the panel was disposed, while a query of the session was
\* still awaited
C24_Witness ==
    /\ \A view \in Views : panelOf(view) = Undefined
    /\ \E e \in EndedMessages : e.state = Undefined /\ ~e.open
    /\ \E pending \in inflight : pending.type # "show"

(***************************************************************************)
(* Overlapping requests                                                    *)
(***************************************************************************)
\* the view whose panel is open
OpenViews == {view \in Views : panelOf(view) # Undefined}

\* every handler of the run has ended, the run opened one table, every query succeeded
\* and at least two messages were handled
AllAnswered ==
    /\ inflight = {}
    /\ Cardinality({e \in settled : e.type = "show"}) = 1
    /\ \A e \in settled : e.outcome = "resolved" /\ "ok" \in DOMAIN e.executor /\ e.executor.ok
    /\ Cardinality(EndedMessages) >= 2

\* C27 as stated: once all handlers of overlapping requests have finished, whatever the
\* order in which their queries completed, the page holds the provider's current state
\* and the result of the query synthesized from that state
C27_PageShowsCurrentState ==
    \A view \in OpenViews :
        AllAnswered /\ webview.loaded =>
            /\ webview.state = stateOf(view)
            /\ webview.result = buildQueryOf(view, panelOf(view).dbType, stateOf(view)).text

(***************************************************************************)
(* Disposal while a query is in flight                                     *)
(***************************************************************************)
\* C28 as stated: no handler of a refresh, add or remove message rejects, and a handler
\* that finds the panel disposed when its query ends, successfully or not, posts nothing
C28_HandlersNeverReject ==
    \A e \in EndedMessages :
        /\ e.outcome = "resolved"
        /\ ~e.open => e.sent = <<>>

(***************************************************************************)
(* Connecting and disconnecting one stored connection: every operation     *)
(* gives up control at its awaits, and the others run in between           *)
(***************************************************************************)
\* the most operations of a run
MaxTasks == 3

\* connectDatabase, newQuery's ensureConnected, the tree's ensureConnected on expand, the
\* chat handler's connect, executeQuery's connect, and disconnectDatabase
Paths == {"connectDatabase", "newQuery", "expand", "chat", "executeQuery", "disconnect"}

\* the paths that go through an ensureConnected, each with a map of its own
Guarded == {"newQuery", "expand"}

\* ConnectionManager.isConnected
isConnected == registered # NoConnector /\ connectors[registered] = "live"

\* the entry of the map an ensureConnected looks at
entryOf(path) == IF path = "newQuery" THEN connectInFlight ELSE autoConnectInFlight

\* map.set(connectionId, task), map.delete(connectionId)
SetEntry(path, entry) ==
    IF path = "newQuery"
    THEN connectInFlight' = entry /\ UNCHANGED autoConnectInFlight
    ELSE autoConnectInFlight' = entry /\ UNCHANGED connectInFlight

At(pc, target) == [pc |-> pc, target |-> target]

\* an operation up to its first await
Begun(path) ==
    CASE path \in Guarded ->
            IF isConnected THEN At("done", NoConnector)
            ELSE IF entryOf(path) # NoConnector THEN At("waiting", entryOf(path))
            ELSE At("storage", NoConnector)
      [] path \in {"connectDatabase", "chat"} -> At("storage", NoConnector)
      [] path = "executeQuery" ->
            IF registered # NoConnector THEN At("done", NoConnector)
            ELSE At("storage", NoConnector)
      [] path = "disconnect" ->
            IF registered # NoConnector THEN At("closing", registered)
            ELSE At("done", NoConnector)

\* a command, a tree expansion or a chat request begins
ConnBegin ==
    \E path \in Paths :
        LET id == Len(tasks) + 1
            begun == Begun(path)
        IN  /\ Len(tasks) < MaxTasks
            /\ tasks' = Append(tasks, [path |-> path, pc |-> begun.pc, target |-> begun.target])
            /\ connectors' = Append(connectors, "none")
            /\ IF path \in Guarded /\ begun.pc = "storage"
               THEN SetEntry(path, id)
               ELSE UNCHANGED <<connectInFlight, autoConnectInFlight>>
            /\ UNCHANGED <<registered, guardVars, viewVars, chatVars, sessionVars, mapVars>>

\* connectionStorage.getConnection has returned the stored connection:
\* ConnectionManager.connect creates a connector and awaits its connect(); the chat
\* handler first looks whether a connector is registered
ConnCreate ==
    \E id \in DOMAIN tasks :
        /\ tasks[id].pc = "storage"
        /\ IF tasks[id].path = "chat" /\ registered # NoConnector
           THEN /\ tasks' = [tasks EXCEPT ![id].pc = "done"]
                /\ UNCHANGED connectors
           ELSE /\ tasks' = [tasks EXCEPT ![id].pc = "connecting"]
                /\ connectors' = [connectors EXCEPT ![id] = "connecting"]
        /\ UNCHANGED <<registered, connectInFlight, autoConnectInFlight,
                       guardVars, viewVars, chatVars, sessionVars, mapVars>>

\* connector.connect() has ended: on success ConnectionManager.connect stores the
\* connector under the id, replacing what is there
ConnConnected ==
    \E id \in DOMAIN tasks, succeeds \in BOOLEAN :
        /\ tasks[id].pc = "connecting"
        /\ connectors' = [connectors EXCEPT ![id] = IF succeeds THEN "live" ELSE "failed"]
        /\ registered' = IF succeeds THEN id ELSE registered
        /\ tasks' = [tasks EXCEPT ![id].pc = IF tasks[id].path \in Guarded THEN "finishing"
                                             ELSE "done"]
        /\ UNCHANGED <<connectInFlight, autoConnectInFlight,
                       guardVars, viewVars, chatVars, sessionVars, mapVars>>

\* the finally block of an ensureConnected
ConnFinally ==
    \E id \in DOMAIN tasks :
        /\ tasks[id].pc = "finishing"
        /\ SetEntry(tasks[id].path, NoConnector)
        /\ tasks' = [tasks EXCEPT ![id].pc = "done"]
        /\ UNCHANGED <<connectors, registered, guardVars, viewVars, chatVars, sessionVars, mapVars>>

\* await existing: the task found in the map has ended
ConnWaited ==
    \E id \in DOMAIN tasks :
        /\ tasks[id].pc = "waiting"
        /\ tasks[tasks[id].target].pc \in {"finishing", "done"}
        /\ tasks' = [tasks EXCEPT ![id].pc = "done"]
        /\ UNCHANGED <<connectors, registered, connectInFlight, autoConnectInFlight,
                       guardVars, viewVars, chatVars, sessionVars, mapVars>>

\* ConnectionManager.disconnect after its await: the connector it read is closed and
\* the id's entry deleted
ConnClosed ==
    \E id \in DOMAIN tasks :
        /\ tasks[id].pc = "closing"
        /\ connectors' = [connectors EXCEPT ![tasks[id].target] = "closed"]
        /\ registered' = NoConnector
        /\ tasks' = [tasks EXCEPT ![id].pc = "done"]
        /\ UNCHANGED <<connectInFlight, autoConnectInFlight,
                       guardVars, viewVars, chatVars, sessionVars, mapVars>>

ConnInit == GuardIdle /\ ViewIdle /\ ChatIdle /\ SessionIdle /\ ConnIdle /\ MapIdle

ConnNext ==
    \/ ConnBegin
    \/ ConnCreate
    \/ ConnConnected
    \/ ConnFinally
    \/ ConnWaited
    \/ ConnClosed

ConnSpec == ConnInit /\ [][ConnNext]_vars

(***************************************************************************)
(* Connectors of one connection                                            *)
(***************************************************************************)
Connecting == {id \in DOMAIN connectors : connectors[id] = "connecting"}
Live == {id \in DOMAIN connectors : connectors[id] = "live"}

\* C29 as stated: under every interleaving of the connect paths and disconnect for one
\* connection, at most one connect is in flight, every connector that connected and was
\* not disconnected is the one ConnectionManager holds under the id, and a map has an
\* entry for the id only while the connect attempt that set it has not finished
C29_NoConnectorOrphaned ==
    /\ Cardinality(Connecting) <= 1
    /\ \A id \in Live : registered = id
    /\ \A entry \in {connectInFlight, autoConnectInFlight} :
           entry # NoConnector => tasks[entry].pc \in {"storage", "connecting", "finishing"}

(***************************************************************************)
(* SchemaContextService.mapWithConcurrency                                 *)
(***************************************************************************)
\* the longest list of items
MaxItems == 3

\* the concurrency arguments tried
Concurrencies == -1..3

\* the lists of items, with repeated items
ItemLists == UNION { [1..n -> {"a", "b"}] : n \in 0..MaxItems }

\* what fn resolves with for an item
fn(item) == <<"details", item>>

\* Math.max(1, concurrency)
workerCount(k) == IF k > 1 THEN k ELSE 1

\* new Array(items.length): every slot reads as undefined
emptyResults(list) == [i \in 1..Len(list) |-> Undefined]

Awaiting(i) == [pc |-> "awaiting", i |-> i]
Returned == [pc |-> "returned"]

\* a pass of the loop that returns one index early
takeNextEarly(run, w, length) ==
    IF run.idx + 1 >= length
    THEN [idx |-> run.idx + 1, invoked |-> run.invoked,
          workers |-> [run.workers EXCEPT ![w] = Returned]]
    ELSE [idx |-> run.idx + 1, invoked |-> Append(run.invoked, run.idx + 1),
          workers |-> [run.workers EXCEPT ![w] = Awaiting(run.idx + 1)]]

\* one pass of a worker's loop up to its await: const i = idx++; the worker returns when
\* i >= items.length and calls fn(items[i]) otherwise (indices of the model start at 1)
takeNext(run, w, length) ==
    IF run.idx >= length
    THEN [idx |-> run.idx + 1, invoked |-> run.invoked,
          workers |-> [run.workers EXCEPT ![w] = Returned]]
    ELSE [idx |-> run.idx + 1, invoked |-> Append(run.invoked, run.idx + 1),
          workers |-> [run.workers EXCEPT ![w] = Awaiting(run.idx + 1)]]

\* new Array(n).fill(0).map(async () => ...): the workers w..n run, one after the other,
\* each up to its first await
RECURSIVE startWorkers(_, _, _, _)
startWorkers(run, w, n, length) ==
    IF w > n THEN run ELSE startWorkers(takeNext(run, w, length), w + 1, n, length)

\* the call of mapWithConcurrency up to await Promise.all
MapCall ==
    \E list \in ItemLists, k \in Concurrencies :
        LET n == workerCount(k)
            run == startWorkers([idx |-> 0, invoked |-> <<>>, workers |-> [w \in 1..n |-> Returned]],
                                1, n, Len(list))
        IN  /\ workers = <<>> /\ returned = Undefined
            /\ items' = list
            /\ concurrency' = k
            /\ results' = emptyResults(list)
            /\ workers' = run.workers
            /\ idx' = run.idx
            /\ invoked' = run.invoked
            /\ UNCHANGED <<returned, guardVars, viewVars, chatVars, sessionVars, connVars>>

\* the call of fn a worker awaits resolves: the worker stores the result at the index it
\* holds and goes round its loop
MapResume ==
    \E w \in DOMAIN workers :
        LET run == takeNext([idx |-> idx, invoked |-> invoked, workers |-> workers], w, Len(items))
        IN  /\ workers[w].pc = "awaiting"
            /\ results' = [results EXCEPT ![workers[w].i] = fn(items[workers[w].i])]
            /\ workers' = run.workers
            /\ idx' = run.idx
            /\ invoked' = run.invoked
            /\ UNCHANGED <<items, concurrency, returned,
                           guardVars, viewVars, chatVars, sessionVars, connVars>>

\* Promise.all(workers) resolves and results is returned
MapReturn ==
    /\ workers # <<>>
    /\ returned = Undefined
    /\ \A w \in DOMAIN workers : workers[w].pc = "returned"
    /\ returned' = Arr(results)
    /\ UNCHANGED <<items, concurrency, idx, results, workers, invoked,
                   guardVars, viewVars, chatVars, sessionVars, connVars>>

MapInit == GuardIdle /\ ViewIdle /\ ChatIdle /\ SessionIdle /\ ConnIdle /\ MapIdle

MapNext ==
    \/ MapCall
    \/ MapResume
    \/ MapReturn

MapSpec == MapInit /\ [][MapNext]_vars

(***************************************************************************)
(* mapWithConcurrency's contract                                           *)
(***************************************************************************)
\* how often fn was called on the item at an index
TimesInvoked(i) == Cardinality({n \in DOMAIN invoked : invoked[n] = i})

\* the calls of fn that have not resolved
InFlight == {w \in DOMAIN workers : workers[w].pc = "awaiting"}

\* the larger of 1 and k
AtLeastOne(k) == IF k < 1 THEN 1 ELSE k

\* C30: fn is called at most once on every item, and exactly once on each by the time
\* the call returns; no more than max(1, k) calls are in flight; the array returned has
\* the length of items and holds fn(items[i]) at i, in whatever order the calls resolved;
\* for no items it is empty and fn was not called
C30_MapWithConcurrency ==
    /\ \A i \in DOMAIN invoked : invoked[i] \in DOMAIN items
    /\ \A i \in DOMAIN items : TimesInvoked(i) <= 1
    /\ Cardinality(InFlight) <= AtLeastOne(concurrency)
    /\ returned # Undefined =>
           /\ Len(returned.v) = Len(items)
           /\ \A i \in DOMAIN items : TimesInvoked(i) = 1 /\ returned.v[i] = <<"details", items[i]>>
           /\ items = <<>> => returned.v = <<>> /\ invoked = <<>>

\* three items were mapped by two workers, and the call of the second item resolved
\* before that of the first
C30_Witness ==
    /\ returned # Undefined
    /\ Len(items) = 3 /\ concurrency = 2
    /\ invoked = <<1, 2, 3>>
    /\ workers[2].pc = "returned"
====
